---- MODULE Spec2Model ----
(***************************************************************************)
(* Munajjam alignment engine: the Aligner facade (core/aligner.py), the    *)
(* hybrid orchestrator (core/hybrid.py), cascade recovery                  *)
(* (core/cascade_recovery.py) and the greedy merge loop                    *)
(* (src/align_segments.py).                                                *)
(*                                                                         *)
(* Fixed point: a time is an integer number of deciseconds (0.1 s), a      *)
(* similarity an integer number of hundredths (0..100).  Silences arrive   *)
(* in milliseconds and are converted as the code converts them.            *)
(***************************************************************************)
EXTENDS Integers, Sequences, FiniteSets, TLC

VARIABLES
    self_strategy,      \* Aligner.strategy
    self_quality_threshold,  \* Aligner.quality_threshold
    self_fix_drift,     \* Aligner.fix_drift
    self_fix_overlaps,  \* Aligner.fix_overlaps
    self_last_stats,    \* Aligner._last_stats (shared by every call on the instance)
    callers,            \* the threads of the external driver that call align
    pc,                 \* per caller: position inside Aligner.align
    inp,                \* per caller: the arguments of the running call
    call_results,       \* per caller: the local variable `results`
    own_stats,          \* per caller: the HybridStats its own hybrid run produced
    passes,             \* per caller: the passes the call has executed, in order
    outcome,            \* per caller: how the call ended
    seen_stats,         \* per caller: last_stats as read right after the return
    stages,             \* per caller: the result list each executed pass left
    calls,              \* number of align calls started on the instance
    profile             \* the runs the driver may ask for, and how many

avars == <<self_strategy, self_quality_threshold, self_fix_drift,
           self_fix_overlaps, self_last_stats,
           callers, pc, inp, call_results, own_stats, passes, outcome, seen_stats,
           stages, calls, profile>>

\* One call of align_segments_hybrid
VARIABLES
    h_pc,               \* "ready" before the call, "done" after it returned
    h_in,               \* its arguments
    h_results,          \* the returned result list
    h_stats             \* the returned HybridStats

hvars == <<h_pc, h_in, h_results, h_stats>>

\* one call of apply_cascade_recovery: where it stands, its arguments, the
\* cascades still to process, improved_results, and what each re-solve returned
VARIABLES c_pc, c_in, c_cascades, c_results, c_log

cvars == <<c_pc, c_in, c_cascades, c_results, c_log>>

\* one call of a function of the engine: where it stands ("call" before,
\* "done" after), its arguments and what it returned
VARIABLES f_pc, f_in, f_out

fvars == <<f_pc, f_in, f_out>>

\* clean_and_merge_segments (src/align_segments.py): where it stands, the
\* segments and ayahs it loaded, its locals i and ayah_index, the buffer
\* (start_time, merged_text, end_time, overlap_flag) and cleaned_segments
VARIABLES g_pc, g_in, g_i, g_ayah_index, g_buf, g_cleaned_segments

gvars == <<g_pc, g_in, g_i, g_ayah_index, g_buf, g_cleaned_segments>>

vars == <<avars, hvars, cvars, fvars, gvars>>

-----------------------------------------------------------------------------
(* Generic helpers *)

Max(a, b) == IF a >= b THEN a ELSE b

Min(a, b) == IF a <= b THEN a ELSE b

None == [none |-> TRUE]

-----------------------------------------------------------------------------
(* Program constants *)

\* hybrid.py: _find_silences_in_range(min_duration = 0.2), in deciseconds
MIN_SILENCE_DURATION == 2

\* hybrid.py: the 0.5 s tolerance of the range filter, in deciseconds
RANGE_TOLERANCE == 5

\* hybrid.py: a split is accepted only above dp similarity + 0.05
SPLIT_MARGIN == 5

\* hybrid.py: align_segments_hybrid(long_ayah_words = 30)
LONG_AYAH_WORDS == 30

\* hybrid.py: align_segments_hybrid(long_ayah_duration = 30.0), in deciseconds
LONG_AYAH_DURATION == 300

\* aligner.py / hybrid.py: quality_threshold = 0.85
DEFAULT_QUALITY_THRESHOLD == 85

\* milliseconds per decisecond: s / 1000.0 seconds in the code
MS_PER_DS == 100

-----------------------------------------------------------------------------
(* Records                                                                 *)
(*   Segment         [start, end, blank]      blank: text.strip() is empty *)
(*   Ayah            [ayah_number, words]     words: len(text.split())     *)
(*   AlignmentResult [ayah, start_time, end_time, transcribed_text,        *)
(*                    similarity_score]                                   *)
(* transcribed_text is kept as the name of the text's origin: the merged   *)
(* text of the DP group, of the greedy group, of the restitched chunks.    *)

AlignmentResult(ayah, start_time, end_time, text, sim) ==
    [ayah |-> ayah, start_time |-> start_time, end_time |-> end_time,
     transcribed_text |-> text, similarity_score |-> sim]

\* HybridStats dataclass, all counters 0 but total_ayahs
HybridStats(total) ==
    [total_ayahs |-> total, dp_kept |-> 0, old_fallback |-> 0,
     split_improved |-> 0, still_low |-> 0]

-----------------------------------------------------------------------------
(* core/hybrid.py *)

\* (s / 1000.0, e / 1000.0) for s, e in silences_ms
SilencesSec(silences_ms) ==
    [i \in 1..Len(silences_ms) |->
        <<silences_ms[i][1] \div MS_PER_DS, silences_ms[i][2] \div MS_PER_DS>>]

_find_silences_in_range(silences_sec, start_time, end_time) ==
    LET Overlaps(p) == p[2] > start_time /\ p[1] < end_time
        Clip(p) == <<Max(p[1], start_time), Min(p[2], end_time)>>
        LongEnough(p) == Overlaps(p) /\
                         Clip(p)[2] - Clip(p)[1] >= MIN_SILENCE_DURATION
        kept == SelectSeq(silences_sec, LongEnough)
    IN  [i \in 1..Len(kept) |-> Clip(kept[i])]

\* list.sort(key = lambda x: x[0]): a stable insertion sort on the start
RECURSIVE InsertByStart(_, _)
InsertByStart(sorted, p) ==
    IF sorted = <<>> THEN <<p>>
    ELSE IF Head(sorted)[1] <= p[1]
         THEN <<Head(sorted)>> \o InsertByStart(Tail(sorted), p)
         ELSE <<p>> \o sorted

RECURSIVE SortByStart(_)
SortByStart(s) ==
    IF s = <<>> THEN <<>>
    ELSE InsertByStart(SortByStart(SubSeq(s, 1, Len(s) - 1)), s[Len(s)])

\* the for-loop of _split_segments_at_silences over range_segments[k..]:
\* st = [chunks, current_chunk, silence_idx] (silence_idx is 0-based)
RECURSIVE SplitLoop(_, _, _, _)
SplitLoop(range_segments, silences, k, st) ==
    IF k > Len(range_segments) THEN st
    ELSE
      LET seg == range_segments[k]
          nxt ==
            IF st.silence_idx < Len(silences)
            THEN LET sil == silences[st.silence_idx + 1]
                 IN  IF seg.end <= sil[1]
                     THEN [st EXCEPT !.current_chunk = Append(@, seg)]
                     ELSE IF seg.start >= sil[2]
                     THEN [chunks |-> IF st.current_chunk # <<>>
                                      THEN Append(st.chunks, st.current_chunk)
                                      ELSE st.chunks,
                           current_chunk |-> <<seg>>,
                           silence_idx |-> st.silence_idx + 1]
                     ELSE [chunks |-> Append(st.chunks,
                                             Append(st.current_chunk, seg)),
                           current_chunk |-> <<>>,
                           silence_idx |-> st.silence_idx + 1]
            ELSE [st EXCEPT !.current_chunk = Append(@, seg)]
      IN  SplitLoop(range_segments, silences, k + 1, nxt)

\* after the loop: the open chunk is closed; no chunk at all gives one chunk
SplitFinish(range_segments, st) ==
    IF st.current_chunk # <<>> THEN Append(st.chunks, st.current_chunk)
    ELSE IF st.chunks # <<>> THEN st.chunks
    ELSE <<range_segments>>

SplitChunks(range_segments, silences) ==
    IF range_segments = <<>> THEN <<>>
    ELSE IF silences = <<>> THEN <<range_segments>>
    ELSE SplitFinish(range_segments,
                     SplitLoop(range_segments, silences, 1,
                               [chunks |-> <<>>, current_chunk |-> <<>>,
                                silence_idx |-> 0]))

_split_segments_at_silences(segments, silences_sec, start_time, end_time) ==
    LET InRange(s) == s.start >= start_time - RANGE_TOLERANCE /\
                      s.end <= end_time + RANGE_TOLERANCE
    IN  SplitChunks(SelectSeq(segments, InRange),
                    SortByStart(_find_silences_in_range(silences_sec,
                                                        start_time, end_time)))

\* a restitched text is accepted as soon as it scores higher than the DP's
Restitch_AnyImprovement(chunks, dp_result, new_sim) ==
    LET NonBlank(chunk) == \E i \in 1..Len(chunk) : ~chunk[i].blank
    IN  IF Len(chunks) <= 1 THEN None
        ELSE IF SelectSeq(chunks, NonBlank) = <<>> THEN None
        ELSE IF new_sim > dp_result.similarity_score
             THEN AlignmentResult(dp_result.ayah, dp_result.start_time,
                                  dp_result.end_time, "split", new_sim)
             ELSE None

\* new_sim is similarity(merged_text, ayah.text) of the restitched text
\* lines 136-163: the chunks' texts are joined and scored
Restitch(chunks, dp_result, new_sim) ==
    LET NonBlank(chunk) == \E i \in 1..Len(chunk) : ~chunk[i].blank
    IN  IF Len(chunks) <= 1 THEN None
        ELSE IF SelectSeq(chunks, NonBlank) = <<>> THEN None
        ELSE IF new_sim > dp_result.similarity_score + SPLIT_MARGIN
             THEN AlignmentResult(dp_result.ayah, dp_result.start_time,
                                  dp_result.end_time, "split", new_sim)
             ELSE None

_try_split_and_restitch(segments, ayah, dp_result, silences_ms, new_sim) ==
    IF silences_ms = <<>> THEN None
    ELSE Restitch(_split_segments_at_silences(
                      segments, SilencesSec(silences_ms),
                      dp_result.start_time, dp_result.end_time),
                  dp_result, new_sim)

IsNone(x) == "none" \in DOMAIN x

\* old_by_ayah[number]: a later result for the same number replaces an earlier
OldByAyah(old_results, number) ==
    LET idx == {i \in 1..Len(old_results) :
                    old_results[i].ayah.ayah_number = number}
    IN  IF idx = {} THEN None
        ELSE old_results[CHOOSE i \in idx : \A k \in idx : k <= i]

\* lines 259-266: the split result replaces the DP result when it scores higher
TrySplit(dp_r, split_result) ==
    IF ~IsNone(split_result) /\
       split_result.similarity_score > dp_r.similarity_score
    THEN [best_result |-> split_result, best_source |-> "split"]
    ELSE [best_result |-> dp_r, best_source |-> "dp"]

\* the greedy result replaces the best so far whenever there is one
TryOld_Unconditional(best, old_r) ==
    IF ~IsNone(old_r)
    THEN [best_result |-> old_r, best_source |-> "old"]
    ELSE best

\* lines 268-272: the greedy result replaces the best so far when it scores higher
TryOld(best, old_r) ==
    IF ~IsNone(old_r) /\
       old_r.similarity_score > best.best_result.similarity_score
    THEN [best_result |-> old_r, best_source |-> "old"]
    ELSE best

\* the body of the for-loop over dp_results: the emitted result and its source
HybridChoice(segments, silences_ms, quality_threshold, old_results, split_sim, dp_r) ==
    LET is_long_ayah == dp_r.ayah.words > LONG_AYAH_WORDS \/
                        dp_r.end_time - dp_r.start_time > LONG_AYAH_DURATION
    IN  IF dp_r.similarity_score >= quality_threshold
        THEN [best_result |-> dp_r, best_source |-> "kept"]
        ELSE TryOld(TrySplit(dp_r,
                        IF is_long_ayah
                        THEN _try_split_and_restitch(segments, dp_r.ayah, dp_r,
                                 silences_ms, split_sim[dp_r.ayah.ayah_number])
                        ELSE None),
                    OldByAyah(old_results, dp_r.ayah.ayah_number))

\* the stats update of one loop iteration
HybridCount(stats, choice, quality_threshold) ==
    IF choice.best_source = "kept" THEN [stats EXCEPT !.dp_kept = @ + 1]
    ELSE IF choice.best_source = "old" THEN [stats EXCEPT !.old_fallback = @ + 1]
    ELSE IF choice.best_source = "split" THEN [stats EXCEPT !.split_improved = @ + 1]
    ELSE IF choice.best_result.similarity_score < quality_threshold
         THEN [stats EXCEPT !.still_low = @ + 1]
         ELSE [stats EXCEPT !.dp_kept = @ + 1]

\* lines 274-284: count the choice and append it
HybridEmit(acc, choice, quality_threshold) ==
    [results |-> Append(acc.results, choice.best_result),
     stats |-> HybridCount(acc.stats, choice, quality_threshold)]

RECURSIVE HybridLoop(_, _, _, _, _, _, _, _)
HybridLoop(segments, silences_ms, quality_threshold, old_results, split_sim, dp_results, k, acc) ==
    IF k > Len(dp_results) THEN acc
    ELSE HybridLoop(segments, silences_ms, quality_threshold, old_results,
                    split_sim, dp_results, k + 1,
                    HybridEmit(acc,
                               HybridChoice(segments, silences_ms,
                                            quality_threshold, old_results,
                                            split_sim, dp_results[k]),
                               quality_threshold))

\* dp_results and old_results are what align_segments_dp_with_constraints and
\* align_segments_greedy return for these segments, ayahs and silences
align_segments_hybrid(segments, ayahs, silences_ms, quality_threshold, dp_results, old_results, split_sim) ==
    LET stats == HybridStats(Len(ayahs))
    IN  IF segments = <<>> \/ ayahs = <<>>
        THEN [results |-> <<>>, stats |-> stats]
        ELSE IF dp_results = <<>>
        THEN [results |-> old_results,
              stats |-> [stats EXCEPT !.old_fallback = Len(old_results)]]
        ELSE HybridLoop(segments, silences_ms, quality_threshold, old_results,
                        split_sim, dp_results, 1,
                        [results |-> <<>>, stats |-> stats])

-----------------------------------------------------------------------------
(* Inputs of one alignment run, drawn from bounded sets *)

\* most segments of one run
MaxSeg == 3

\* most ayat of one run
MaxAy == 2

\* duration of one segment, in deciseconds
SegDur == 200

\* word count of a short and of a long ayah text
ShortWords == 5

LongWords == 40

\* segments back to back, the last one with blank text or not
SegmentLists(maxSeg, blanks) ==
    {[i \in 1..n |-> [start |-> (i - 1) * SegDur, end |-> i * SegDur,
                      blank |-> (b /\ i = n)]] :
        n \in 0..maxSeg, b \in blanks}

\* segments that break the input contract: out of order, or a negative time
BadSegmentLists ==
    { <<[start |-> SegDur, end |-> 2 * SegDur, blank |-> FALSE],
        [start |-> 0, end |-> SegDur, blank |-> FALSE]>>,
      <<[start |-> 0 - SegDur, end |-> SegDur, blank |-> FALSE]>> }

AyahLists(maxAy, longs) ==
    {[j \in 1..m |-> [ayah_number |-> j,
                      words |-> IF long /\ j = 1 THEN LongWords ELSE ShortWords]] :
        m \in 0..maxAy, long \in longs}

\* silences_ms: none, one across the first segment boundary, one too short
SilenceLists ==
    { <<>>,
      << <<(SegDur - 10) * MS_PER_DS, (SegDur + 10) * MS_PER_DS>> >>,
      << <<SegDur * MS_PER_DS, (SegDur + 1) * MS_PER_DS>> >> }

\* a silence pair with end <= start
BadSilenceLists == { << <<SegDur * MS_PER_DS, SegDur * MS_PER_DS>> >> }

ValidInput(segments, ayahs, silences_ms) ==
    /\ \A i \in 1..Len(segments) :
          segments[i].start >= 0 /\ segments[i].end >= segments[i].start
    /\ \A i \in 1..Len(segments) - 1 : segments[i].start <= segments[i + 1].start
    /\ ~(ayahs = <<>> /\ segments # <<>>)
    /\ \A i \in 1..Len(silences_ms) :
          silences_ms[i][1] >= 0 /\ silences_ms[i][2] > silences_ms[i][1]

\* the end indices <<e1 < e2 < ... < er>> of r contiguous non-empty groups of
\* the first er of n segments, each group holding a non-blank segment
RECURSIVE GroupEnds(_, _, _)
GroupEnds(segments, from, r) ==
    IF r = 0 THEN {<<>>}
    ELSE UNION { { <<e>> \o rest : rest \in GroupEnds(segments, e + 1, r - 1) } :
                 e \in {x \in from..Len(segments) :
                            \E i \in from..x : ~segments[i].blank} }

\* every way to give each of r results a similarity from the grid
SimChoices(r, grid) == [1..r -> grid]

\* results for ayat 1..r over the groups that end at ends[1..r]
GroupResults(segments, ayahs, ends, sims, text) ==
    [k \in 1..Len(ends) |->
        AlignmentResult(ayahs[k],
            segments[IF k = 1 THEN 1 ELSE ends[k - 1] + 1].start,
            segments[ends[k]].end, text, sims[k])]

-----------------------------------------------------------------------------
(* The aligners the orchestrator and the facade call *)

\* align_segments_dp_with_constraints: a result for every ayah when a partition
\* into contiguous non-empty groups exists, else the longest prefix it reaches
\* a partition that reaches the last ayah assigns every segment
DpEnds(segments, ayahs, r) ==
    { ends \in GroupEnds(segments, 1, r) :
        (r > 0 /\ r = Len(ayahs)) => ends[r] = Len(segments) }

LongestPrefix(segments, ayahs) ==
    CHOOSE r \in 0..Len(ayahs) :
        /\ DpEnds(segments, ayahs, r) # {}
        /\ \A x \in (r + 1)..Len(ayahs) : DpEnds(segments, ayahs, x) = {}

DpOutputsOf(segments, ayahs, grid, r) ==
    { GroupResults(segments, ayahs, ends, sims, "dp") :
        ends \in DpEnds(segments, ayahs, r), sims \in SimChoices(r, grid) }

DpOutputs(segments, ayahs, grid) ==
    DpOutputsOf(segments, ayahs, grid, LongestPrefix(segments, ayahs))

\* aligner_greedy.align_segments: groups in segment order from the first
\* segment; it stops short of the last ayah only by running out of segments
GreedyOutputs(segments, ayahs, grid) ==
    LET n == Len(segments)
        m == Len(ayahs)
        Ends(r) == { e \in [1..r -> 1..n] :
                        /\ \A k \in 1..r - 1 : e[k] < e[k + 1]
                        /\ (r < m => e[r] = n) }
    IN  UNION { { GroupResults(segments, ayahs, ends, sims, "old") :
                    ends \in Ends(r), sims \in SimChoices(r, grid) } :
                r \in 1..Min(n, m) }

\* the arguments of one run with what the two aligners and the scorer return
\* for them: split_sim[j] is the similarity of ayah j's restitched text,
\* zone_sim the similarity a zone re-solve reaches
NoInput == [segments |-> <<>>, ayahs |-> <<>>, silences_ms |-> <<>>,
            dp_results |-> <<>>, old_results |-> <<>>, split_sim |-> <<>>,
            zone_sim |-> 0, on_progress |-> "none"]

\* a profile bounds the runs a specification draws:
\*   segment_lists, ayah_lists, silence_lists, callbacks: the argument sets
\*   dp_sims, old_sims, split_sims, zone_sims: the similarity grids
\* RunArguments(p) are the argument tuples a caller passes, RunsOf(p, a) the
\* runs those arguments can have
RunArguments(p) ==
    { [segments |-> segments, ayahs |-> ayahs, silences_ms |-> silences_ms,
       on_progress |-> cb] :
        segments \in p.segment_lists, ayahs \in p.ayah_lists,
        silences_ms \in p.silence_lists, cb \in p.callbacks }

RunsOf(p, a) ==
    IF a.segments = <<>> \/ a.ayahs = <<>>
       \/ ~ValidInput(a.segments, a.ayahs, a.silences_ms)
    THEN { [NoInput EXCEPT !.segments = a.segments, !.ayahs = a.ayahs,
                           !.silences_ms = a.silences_ms,
                           !.on_progress = a.on_progress] }
    ELSE { [segments |-> a.segments, ayahs |-> a.ayahs,
            silences_ms |-> a.silences_ms, dp_results |-> d,
            old_results |-> o,
            split_sim |-> [j \in 1..Len(a.ayahs) |-> v],
            zone_sim |-> z, on_progress |-> a.on_progress] :
            d \in DpOutputs(a.segments, a.ayahs, p.dp_sims),
            o \in GreedyOutputs(a.segments, a.ayahs, p.old_sims),
            v \in p.split_sims, z \in p.zone_sims }

-----------------------------------------------------------------------------
(* core/zone_realigner.py and core/dp_core.py, as the facade uses them *)

\* zone_realigner: min_consecutive = 3, min_gap_size = 3
MIN_CONSECUTIVE == 3

\* the maximal runs <<a, b>> of at least MIN_CONSECUTIVE consecutive results
\* with similarity below q
LowRuns(results, q) ==
    LET Low(i) == results[i].similarity_score < q
    IN  { <<a, b>> \in (1..Len(results)) \X (1..Len(results)) :
            /\ b - a + 1 >= MIN_CONSECUTIVE
            /\ \A i \in a..b : Low(i)
            /\ (a > 1 => ~Low(a - 1))
            /\ (b < Len(results) => ~Low(b + 1)) }

RECURSIVE SumSims(_, _, _)
SumSims(results, a, b) ==
    IF a > b THEN 0 ELSE results[a].similarity_score + SumSims(results, a + 1, b)

\* the runs whose re-solve, reaching zone_sim per ayah, improves the average
ReplaceRuns(results, runs, zone_sim) ==
    LET Accepted(run) == zone_sim * (run[2] - run[1] + 1) >
                         SumSims(results, run[1], run[2])
    IN  [i \in 1..Len(results) |->
            IF \E run \in runs : run[1] <= i /\ i <= run[2] /\ Accepted(run)
            THEN [results[i] EXCEPT !.similarity_score = zone_sim,
                                    !.transcribed_text = "zone"]
            ELSE results[i]]

realign_problem_zones(results, q, zone_sim) ==
    ReplaceRuns(results, LowRuns(results, q), zone_sim)

\* only the runs bounded on both sides by an anchor (similarity >= q)
realign_from_anchors(results, q, zone_sim) ==
    ReplaceRuns(results,
                { run \in LowRuns(results, q) :
                    run[1] > 1 /\ run[2] < Len(results) },
                zone_sim)

\* walk left to right: a result that starts before its predecessor ends has
\* its start moved up to that end
RECURSIVE FixOverlapsFrom(_, _)
FixOverlapsFrom(results, i) ==
    IF i >= Len(results) THEN results
    ELSE IF results[i + 1].start_time < results[i].end_time
         THEN FixOverlapsFrom(
                  [results EXCEPT ![i + 1].start_time = results[i].end_time],
                  i + 1)
         ELSE FixOverlapsFrom(results, i + 1)

fix_overlaps(results) == FixOverlapsFrom(results, 1)

\* what escapes the DP aligner from its on_progress invocations: the
\* callback's exceptions are caught and ignored
ProgressEscape(on_progress) == "none"

\* an aligner run on the arguments `in`: the input error it reports, or the
\* result list it returns
AlignerRun(in, returned) ==
    IF ~ValidInput(in.segments, in.ayahs, in.silences_ms)
    THEN [error |-> "InvalidInput", results |-> <<>>, stats |-> None]
    ELSE [error |-> "none", results |-> returned, stats |-> None]

align_segments_dp_with_constraints(in) ==
    IF ProgressEscape(in.on_progress) # "none"
    THEN [error |-> ProgressEscape(in.on_progress), results |-> <<>>,
          stats |-> None]
    ELSE AlignerRun(in, in.dp_results)

align_segments_greedy(in) == AlignerRun(in, in.old_results)

-----------------------------------------------------------------------------
(* core/aligner.py: the Aligner facade *)

_align_greedy(in) == align_segments_greedy(in)

\* the facade invokes the callback itself, outside the aligner's handler
_align_dp_ReportsProgress(in) ==
    IF in.on_progress = "raises"
    THEN [error |-> "CallbackError", results |-> <<>>, stats |-> None]
    ELSE align_segments_dp_with_constraints(in)

_align_dp(in) == align_segments_dp_with_constraints(in)

\* an exception of the DP aligner leaves align_segments_hybrid and the facade
HybridRun(dp, out) ==
    IF dp.error # "none" THEN dp
    ELSE [error |-> "none", results |-> out.results, stats |-> out.stats]

_align_hybrid(in, q) ==
    HybridRun(align_segments_dp_with_constraints(in),
              align_segments_hybrid(in.segments, in.ayahs, in.silences_ms, q,
                                    in.dp_results, in.old_results, in.split_sim))

\* lines 109-114: exactly one of the three strategies
RunStrategy(strat, in, q) ==
    IF strat = "greedy" THEN _align_greedy(in)
    ELSE IF strat = "dp" THEN _align_dp(in)
    ELSE _align_hybrid(in, q)

_apply_drift_fix(results, in, q) ==
    realign_from_anchors(realign_problem_zones(results, q, in.zone_sim),
                         DEFAULT_QUALITY_THRESHOLD, in.zone_sim)

\* the drift passes run whatever the toggle says
DriftStage_IgnoresToggle(drift, results, in, q) ==
    IF results # <<>>
    THEN [results |-> _apply_drift_fix(results, in, q),
          passes |-> <<"zones", "anchors">>]
    ELSE [results |-> results, passes |-> <<>>]

\* lines 117-118: the passes run and the list they leave
DriftStage(drift, results, in, q) ==
    IF drift /\ results # <<>>
    THEN [results |-> _apply_drift_fix(results, in, q),
          passes |-> <<"zones", "anchors">>]
    ELSE [results |-> results, passes |-> <<>>]

\* lines 120-121
OverlapStage(overlaps, results) ==
    IF overlaps /\ results # <<>>
    THEN [results |-> fix_overlaps(results), passes |-> <<"overlaps">>]
    ELSE [results |-> results, passes |-> <<>>]

-----------------------------------------------------------------------------
(* core/cascade_recovery.py; similarities in hundredths, times in 0.1 s *)

CASCADE_THRESHOLD == 70

MIN_CASCADE_LENGTH == 2

CONTEXT_AYAHS == 1

WINDOW_TOLERANCE == 5

SILENCE_END_TOLERANCE == 3

MAX_SEGS_PER_AYAH == 6

SILENCE_BONUS == 15

GOOD_SIMILARITY == 75

GOOD_MAX_DROP == 8

MEDIOCRE_SIMILARITY == 50

MEDIOCRE_MAX_DROP == 12

GOOD_FLOOR == 70

MIN_IMPROVEMENT == 8

FULL_SCORE == 100

\* matcher.similarity of the merged text of segments first..last and the text
\* of ayah j, for texts tx:
\*   tx.home[j] = <<a, b>> is the group the first alignment gave ayah j; it
\*   scores tx.good_sim when j is in tx.good and tx.low_sim otherwise;
\*   a good ayah scores tx.wide on a group that extends its home group and
\*   tx.echo on the single segment after it (its words again);
\*   a low ayah scores tx.hit on the single segment after its home group and
\*   tx.miss on every other group; a good ayah scores tx.low_sim on the rest
similarity(tx, j, first, last) ==
    IF <<first, last>> = tx.home[j]
    THEN (IF j \in tx.good THEN tx.good_sim ELSE tx.low_sim)
    ELSE IF first = tx.home[j][2] + 1 /\ last = first
    THEN (IF j \in tx.good THEN tx.echo ELSE tx.hit)
    ELSE IF j \in tx.good /\ first <= tx.home[j][1] /\ tx.home[j][2] <= last
    THEN tx.wide
    ELSE IF j \in tx.good THEN tx.low_sim
    ELSE tx.miss

\* dp_core.compute_alignment_cost: cost = 1 - similarity
compute_alignment_cost(tx, j, first, last) ==
    FULL_SCORE - similarity(tx, j, first, last)

\* a run that also takes the results at the threshold
RECURSIVE RunEnd_AtThreshold(_, _, _)
RunEnd_AtThreshold(results, threshold, i) ==
    IF i <= Len(results) /\ results[i].similarity_score <= threshold
    THEN RunEnd_AtThreshold(results, threshold, i + 1)
    ELSE i

\* the first index at or after i (1-based) whose result is not below threshold
RECURSIVE RunEnd(_, _, _)
RunEnd(results, threshold, i) ==
    IF i <= Len(results) /\ results[i].similarity_score < threshold
    THEN RunEnd(results, threshold, i + 1)
    ELSE i

\* lines 32-42, from the 1-based position i; the pairs are the code's 0-based
\* half-open (start, end)
RECURSIVE FindCascadesFrom(_, _, _, _)
FindCascadesFrom(results, threshold, min_cascade_length, i) ==
    IF i > Len(results) THEN <<>>
    ELSE IF results[i].similarity_score < threshold
    THEN (IF RunEnd(results, threshold, i) - i >= min_cascade_length
          THEN << <<i - 1, RunEnd(results, threshold, i) - 1>> >> ELSE <<>>)
         \o FindCascadesFrom(results, threshold, min_cascade_length,
                             RunEnd(results, threshold, i))
    ELSE FindCascadesFrom(results, threshold, min_cascade_length, i + 1)

find_cascade_sequences(results, threshold, min_cascade_length) ==
    FindCascadesFrom(results, threshold, min_cascade_length, 1)

\* lines 77-80: the 0-based indices of the segments inside the time range
SegIndices(segments, seg_start_time, seg_end_time) ==
    { idx \in 0..Len(segments) - 1 :
        /\ segments[idx + 1].start >= seg_start_time - WINDOW_TOLERANCE
        /\ segments[idx + 1].end <= seg_end_time + WINDOW_TOLERANCE }

SetMin(S) == CHOOSE x \in S : \A y \in S : x <= y

SetMax(S) == CHOOSE x \in S : \A y \in S : x >= y

\* lines 96-99
RelevantSilences(silences_sec, seg_start_time, seg_end_time) ==
    { k \in 1..Len(silences_sec) :
        seg_start_time <= silences_sec[k][1] /\ silences_sec[k][1] <= seg_end_time }

\* lines 109-113: the 1-based sub-segment counts that end at a silence start
SilenceAlignedEnds(segments, seg_range_start, seg_range_end, silences_sec, relevant) ==
    { idx + 1 : idx \in { x \in 0..(seg_range_end - seg_range_start - 1) :
        \E k \in relevant :
            LET d == segments[seg_range_start + x + 1].end - silences_sec[k][1]
            IN  (IF d < 0 THEN 0 - d ELSE d) < SILENCE_END_TOLERANCE } }

\* lines 69-115: what the re-solve works on, once seg_indices is known
WindowOf(tx, segments, results, silences_sec, extended_start, extended_end, seg_indices) ==
    [extended_start |-> extended_start,
     extended_end |-> extended_end,
     seg_range_start |-> SetMin(seg_indices),
     n_sub_seg |-> SetMax(seg_indices) + 1 - SetMin(seg_indices),
     n_sub_ayah |-> extended_end - extended_start,
     sub_ayahs |-> [j \in 1..(extended_end - extended_start) |->
                        results[extended_start + j].ayah],
     silence_aligned_ends |->
         SilenceAlignedEnds(segments, SetMin(seg_indices),
             SetMax(seg_indices) + 1, silences_sec,
             RelevantSilences(silences_sec,
                              results[extended_start + 1].start_time,
                              results[extended_end].end_time)),
     max_segs |-> Min(MAX_SEGS_PER_AYAH,
                      SetMax(seg_indices) + 1 - SetMin(seg_indices)),
     tx |-> tx]

\* lines 131-138: the cost of giving sub-segments prev_i..i-1 to sub-ayah j
EdgeCost(w, prev_i, i, j) ==
    compute_alignment_cost(w.tx, w.sub_ayahs[j].ayah_number,
                           w.seg_range_start + prev_i + 1, w.seg_range_start + i)
    - (IF i \in w.silence_aligned_ends THEN SILENCE_BONUS ELSE 0)


\* the cell takes the shortest group whatever its cost
BestOf_ShortestGroup(w, prev_row, i, j, ks) ==
    IF ks = {} THEN None
    ELSE LET best_k == CHOOSE k \in ks : \A k2 \in ks : k <= k2
         IN  [cost |-> prev_row[i - best_k + 1].cost + EdgeCost(w, i - best_k, i, j),
              prev_i |-> i - best_k]

\* lines 119-145: cell (i, j) from row j - 1; `total_cost < best_cost` with k
\* ascending keeps the smallest k among the cheapest
BestOf(w, prev_row, i, j, ks) ==
    IF ks = {} THEN None
    ELSE LET total_cost(k) == prev_row[i - k + 1].cost + EdgeCost(w, i - k, i, j)
             best_k == CHOOSE k \in ks :
                          \A k2 \in ks :
                              \/ total_cost(k) < total_cost(k2)
                              \/ total_cost(k) = total_cost(k2) /\ k <= k2
         IN  [cost |-> total_cost(best_k), prev_i |-> i - best_k]

DpCell(w, prev_row, i, j) ==
    IF i < j THEN None
    ELSE BestOf(w, prev_row, i, j,
                { k \in 1..Min(w.max_segs, i) : ~IsNone(prev_row[i - k + 1]) })

\* a row of the table is the tuple of its cells: row[i + 1] is the code's
\* dp[(i, j)], None when (i, j) is not in dp
\* line 106: dp[(0, 0)] = (0.0, "", 0, None)
RECURSIVE DpRow0(_, _)
DpRow0(w, i) ==
    IF i > w.n_sub_seg THEN <<>>
    ELSE <<IF i = 0 THEN [cost |-> 0, prev_i |-> 0] ELSE None>> \o DpRow0(w, i + 1)

\* line 118: the cells i..n_sub_seg of row j
RECURSIVE DpRow(_, _, _, _)
DpRow(w, prev_row, i, j) ==
    IF i > w.n_sub_seg THEN <<>>
    ELSE <<DpCell(w, prev_row, i, j)>> \o DpRow(w, prev_row, i + 1, j)

\* lines 117-145: the table from row j on, given the rows before it
RECURSIVE DpRows(_, _, _)
DpRows(w, j, rows) ==
    IF j > w.n_sub_ayah THEN rows
    ELSE DpRows(w, j + 1, Append(rows, DpRow(w, rows[j], 0, j)))

\* dp[j + 1][i + 1] is the code's dp[(i, j)]
DpTable(w) == DpRows(w, 1, <<DpRow0(w, 0)>>)

\* lines 148-155: the cheapest ending, the smallest i among equals
BestEnd(w, last_row) ==
    LET ends == { i \in w.n_sub_ayah..w.n_sub_seg : ~IsNone(last_row[i + 1]) }
    IN  IF ends = {} THEN None
        ELSE [i |-> CHOOSE i \in ends :
                        \A i2 \in ends :
                            \/ last_row[i + 1].cost < last_row[i2 + 1].cost
                            \/ last_row[i + 1].cost = last_row[i2 + 1].cost
                               /\ i <= i2]

\* lines 161-173: the groups (seg_start, seg_end, ayah_idx) from the first
\* sub-ayah to the j-th, whose group ends at sub-segment count i
RECURSIVE Backtrack(_, _, _)
Backtrack(dp, i, j) ==
    IF j = 0 THEN <<>>
    ELSE Backtrack(dp, dp[j + 1][i + 1].prev_i, j - 1)
         \o <<[seg_start |-> dp[j + 1][i + 1].prev_i, seg_end |-> i,
               ayah_idx |-> j]>>

\* lines 176-195: the transcribed text of a result is its group <<first, last>>
NewResults(w, segments, path) ==
    [p \in 1..Len(path) |->
        AlignmentResult(
            w.sub_ayahs[path[p].ayah_idx],
            segments[w.seg_range_start + path[p].seg_start + 1].start,
            segments[w.seg_range_start + path[p].seg_end].end,
            <<w.seg_range_start + path[p].seg_start + 1,
              w.seg_range_start + path[p].seg_end>>,
            similarity(w.tx, w.sub_ayahs[path[p].ayah_idx].ayah_number,
                       w.seg_range_start + path[p].seg_start + 1,
                       w.seg_range_start + path[p].seg_end))]

\* lines 204-217: no ayah of the window degrades significantly
NoSignificantDrop(old_results_range, new_results) ==
    \A p \in 1..Min(Len(old_results_range), Len(new_results)) :
        LET old == old_results_range[p].similarity_score
            drop == old - new_results[p].similarity_score
        IN  /\ ~(old >= GOOD_SIMILARITY /\ drop > GOOD_MAX_DROP)
            /\ ~(old >= MEDIOCRE_SIMILARITY /\ drop > MEDIOCRE_MAX_DROP)
            /\ ~(old >= GOOD_SIMILARITY /\
                 new_results[p].similarity_score < GOOD_FLOOR)

\* lines 220-245: the average over [context, len - context) of the window (the
\* whole window when it has at most 2 results) improves by more than 0.08
CascadeImproves(old_results_range, new_results) ==
    LET len == Len(old_results_range)
        cascade_old_start == Max(0, CONTEXT_AYAHS)
        cascade_old_end == IF len > 2 THEN Min(len, len - CONTEXT_AYAHS) ELSE len
        cascade_len == cascade_old_end - cascade_old_start
    IN  /\ cascade_len # 0
        /\ SumSims(new_results, cascade_old_start + 1, cascade_old_end)
             > SumSims(old_results_range, cascade_old_start + 1, cascade_old_end)
               + MIN_IMPROVEMENT * cascade_len

\* what _recover_cascade_with_resync returns: None, or the new results
NoRecovery == [found |-> FALSE, results |-> <<>>]

Recovered(new_results) == [found |-> TRUE, results |-> new_results]

\* lines 198-245
Accept(w, results, new_results) ==
    IF Len(new_results) # w.extended_end - w.extended_start THEN NoRecovery
    ELSE IF ~NoSignificantDrop(SubSeq(results, w.extended_start + 1,
                                      w.extended_end), new_results)
    THEN NoRecovery
    ELSE IF CascadeImproves(SubSeq(results, w.extended_start + 1,
                                   w.extended_end), new_results)
    THEN Recovered(new_results)
    ELSE NoRecovery

\* lines 157-158: no ending, no recovery
AcceptIfSolved(w, results, candidate) ==
    IF ~candidate.found THEN NoRecovery
    ELSE Accept(w, results, candidate.results)

\* lines 148-195, given the dp table
FromTable(w, segments, dp, best_end) ==
    IF IsNone(best_end) THEN NoRecovery
    ELSE Recovered(NewResults(w, segments,
                              Backtrack(dp, best_end.i, w.n_sub_ayah)))

Candidate(w, segments, dp) ==
    FromTable(w, segments, dp, BestEnd(w, dp[w.n_sub_ayah + 1]))

\* lines 92-245
Resolve(w, segments, results) ==
    IF w.n_sub_seg < w.n_sub_ayah THEN NoRecovery
    ELSE AcceptIfSolved(w, results, Candidate(w, segments, DpTable(w)))

\* lines 82-90
InWindow(tx, segments, results, silences_sec, extended_start, extended_end, seg_indices) ==
    IF seg_indices = {} THEN NoRecovery
    ELSE Resolve(WindowOf(tx, segments, results, silences_sec, extended_start,
                          extended_end, seg_indices),
                 segments, results)

\* results and the cascade bounds are 0-based as in the code
_recover_cascade_with_resync(tx, segments, results, cascade_start, cascade_end, silences_sec) ==
    InWindow(tx, segments, results, silences_sec,
             Max(0, cascade_start - CONTEXT_AYAHS),
             Min(Len(results), cascade_end + CONTEXT_AYAHS),
             SegIndices(segments,
                results[Max(0, cascade_start - CONTEXT_AYAHS) + 1].start_time,
                results[Min(Len(results), cascade_end + CONTEXT_AYAHS)].end_time))

-----------------------------------------------------------------------------
(* One call of apply_cascade_recovery *)

\* most ayat of a recovered result list; the run has one segment more
MaxCascadeAyahs == 5

\* the similarities the texts of a run give: see similarity
CascadeSims ==
    [low_sim |-> 40, good_sim |-> 76,
     wide |-> {40, 70}, echo |-> {40, 60},
     moved |-> {[hit |-> 40, miss |-> 40], [hit |-> 90, miss |-> 40],
                [hit |-> 55, miss |-> 35]}]

\* the segment after whose end the one silence of a run starts (0: no silence)
SilenceAfter == {0, 3, 4}

\* ayah `extra` was given two segments, every other ayah one
HomeGroups(m, extra) ==
    [j \in 1..m |-> IF j < extra THEN <<j, j>>
                    ELSE IF j = extra THEN <<j, j + 1>>
                    ELSE <<j + 1, j + 1>>]

\* the arguments of the call: the results are those of the first alignment
CascadeInput(m, tx, sil) ==
    LET segments == [i \in 1..(m + 1) |->
                        [start |-> (i - 1) * SegDur, end |-> i * SegDur,
                         blank |-> FALSE]]
        ayahs == [j \in 1..m |-> [ayah_number |-> j, words |-> ShortWords]]
    IN  [tx |-> tx,
         segments |-> segments,
         ayahs |-> ayahs,
         results |-> [j \in 1..m |->
                        AlignmentResult(ayahs[j],
                            segments[tx.home[j][1]].start,
                            segments[tx.home[j][2]].end,
                            tx.home[j],
                            similarity(tx, j, tx.home[j][1], tx.home[j][2]))],
         silences_ms |-> IF sil = 0 THEN <<>>
                         ELSE << <<sil * SegDur * MS_PER_DS,
                                   (sil * SegDur + 10) * MS_PER_DS>> >>]

CascadeIdle ==
    /\ c_pc = "off"
    /\ c_in = [tx |-> None, segments |-> <<>>, ayahs |-> <<>>,
               results |-> <<>>, silences_ms |-> <<>>]
    /\ c_cascades = <<>>
    /\ c_results = <<>>
    /\ c_log = <<>>

GreedyIdle ==
    /\ g_pc = "off"
    /\ g_in = [segments |-> <<>>, ayahs |-> <<>>]
    /\ g_i = 0
    /\ g_ayah_index = 0
    /\ g_buf = None
    /\ g_cleaned_segments = <<>>

FunctionIdle ==
    /\ f_pc = "off"
    /\ f_in = None
    /\ f_out = None

HybridIdle ==
    /\ h_pc = "off"
    /\ h_in = NoInput
    /\ h_results = <<>>
    /\ h_stats = None

-----------------------------------------------------------------------------
(* One call of align_segments_hybrid, as the facade makes it *)

HybridProfile ==
    [segment_lists |-> SegmentLists(MaxSeg, BOOLEAN),
     ayah_lists |-> AyahLists(MaxAy, BOOLEAN),
     silence_lists |-> SilenceLists,
     callbacks |-> {"none"},
     dp_sims |-> {60, 90}, old_sims |-> {66, 70}, split_sims |-> {64, 68},
     zone_sims |-> {0}, max_calls |-> 0]

\* no align call is made
NoProfile ==
    [segment_lists |-> {}, ayah_lists |-> {}, silence_lists |-> {},
     callbacks |-> {}, dp_sims |-> {}, old_sims |-> {}, split_sims |-> {},
     zone_sims |-> {}, max_calls |-> 0]

AlignerIdle ==
    /\ self_strategy = "hybrid"
    /\ self_quality_threshold = DEFAULT_QUALITY_THRESHOLD
    /\ self_fix_drift = TRUE
    /\ self_fix_overlaps = TRUE
    /\ self_last_stats = None
    /\ callers = {}
    /\ pc = <<>>
    /\ inp = <<>>
    /\ call_results = <<>>
    /\ own_stats = <<>>
    /\ passes = <<>>
    /\ outcome = <<>>
    /\ seen_stats = <<>>
    /\ stages = <<>>
    /\ calls = 0
    /\ profile = NoProfile

HybridInit ==
    /\ h_pc = "ready"
    /\ \E a \in RunArguments(HybridProfile) :
           \E x \in RunsOf(HybridProfile, a) : h_in = x
    /\ h_results = <<>>
    /\ h_stats = None
    /\ AlignerIdle
    /\ FunctionIdle
    /\ CascadeIdle
    /\ GreedyIdle

HybridCall ==
    /\ h_pc = "ready"
    /\ \E out \in {align_segments_hybrid(h_in.segments, h_in.ayahs,
                      h_in.silences_ms, DEFAULT_QUALITY_THRESHOLD,
                      h_in.dp_results, h_in.old_results, h_in.split_sim)} :
           /\ h_results' = out.results
           /\ h_stats' = out.stats
    /\ h_pc' = "done"
    /\ UNCHANGED <<h_in, avars, cvars, fvars, gvars>>

HybridNext == HybridCall

SpecHybrid == HybridInit /\ [][HybridNext]_vars

-----------------------------------------------------------------------------
(* Claims about align_segments_hybrid *)

CategorySum(stats) ==
    stats.dp_kept + stats.old_fallback + stats.split_improved + stats.still_low

\* C2: after every call of align_segments_hybrid the category counts sum to
\* the total: dp_kept + old_fallback + split_improved + still_low = total_ayahs.
C2_StatsSumToTotal ==
    h_pc = "done" => CategorySum(h_stats) = h_stats.total_ayahs

\* C16: after a hybrid alignment, still_low equals the number of emitted
\* results whose similarity is below the quality threshold Q.
C16_StillLowCountsLowResults ==
    h_pc = "done" =>
        h_stats.still_low =
            Cardinality({ i \in 1..Len(h_results) :
                h_results[i].similarity_score < DEFAULT_QUALITY_THRESHOLD })

\* the set of results the hybrid pass may choose from for the k-th DP result
HybridCandidates(k) ==
    LET d == h_in.dp_results[k]
        long == d.ayah.words > LONG_AYAH_WORDS \/
                d.end_time - d.start_time > LONG_AYAH_DURATION
        split == _try_split_and_restitch(h_in.segments, d.ayah, d,
                     h_in.silences_ms, h_in.split_sim[d.ayah.ayah_number])
        old == OldByAyah(h_in.old_results, d.ayah.ayah_number)
    IN  {d} \cup (IF long /\ ~IsNone(split) THEN {split} ELSE {})
            \cup (IF ~IsNone(old) THEN {old} ELSE {})

\* C8: a DP result at or above Q is emitted unchanged; below Q the emitted
\* result is a candidate (DP, accepted split of a long ayah, greedy result of
\* the same ayah number) of the highest similarity, so never below the DP's.
C8_BestCandidateEmitted ==
    (h_pc = "done" /\ h_in.dp_results # <<>>) =>
        /\ Len(h_results) = Len(h_in.dp_results)
        /\ \A k \in 1..Len(h_in.dp_results) :
              LET d == h_in.dp_results[k]
                  e == h_results[k]
              IN  IF d.similarity_score >= DEFAULT_QUALITY_THRESHOLD
                  THEN e = d
                  ELSE /\ e \in HybridCandidates(k)
                       /\ \A c \in HybridCandidates(k) :
                              c.similarity_score <= e.similarity_score
                       /\ e.similarity_score >= d.similarity_score

\* C8 witness: a low DP result with all three candidates, the greedy one emitted
C8_Witness ==
    /\ h_pc = "done"
    /\ \E k \in 1..Len(h_in.dp_results) :
          /\ h_in.dp_results[k].similarity_score < DEFAULT_QUALITY_THRESHOLD
          /\ Cardinality(HybridCandidates(k)) = 3
          /\ h_results[k].transcribed_text = "old"

\* the chunks the silences cut the segments of DP result d into
ChunksOf(d) ==
    _split_segments_at_silences(h_in.segments, SilencesSec(h_in.silences_ms),
                                d.start_time, d.end_time)

C6_TailFromGreedy ==
    (h_pc = "done" /\ h_in.dp_results # <<>>
                   /\ Len(h_in.dp_results) < Len(h_in.ayahs)) =>
        \A j \in (Len(h_in.dp_results) + 1)..Len(h_in.ayahs) :
            LET old == OldByAyah(h_in.old_results, j)
            IN  ~IsNone(old) => \E i \in 1..Len(h_results) : h_results[i] = old

\* C4 (hybrid): a non-empty returned list holds exactly one result for each
\* ayah number 1..m.
C4_HybridCoversEveryAyah ==
    (h_pc = "done" /\ h_results # <<>>) =>
        \A j \in 1..Len(h_in.ayahs) :
            Cardinality({i \in 1..Len(h_results) :
                            h_results[i].ayah.ayah_number = j}) = 1

-----------------------------------------------------------------------------
(* apply_cascade_recovery, cascade by cascade *)

CascadeInit ==
    /\ c_pc = "call"
    /\ \E m \in 0..MaxCascadeAyahs, extra \in 1..MaxCascadeAyahs,
          good \in SUBSET (1..MaxCascadeAyahs),
          wide \in CascadeSims.wide, echo \in CascadeSims.echo,
          moved \in CascadeSims.moved, sil \in SilenceAfter :
          /\ extra <= Max(m, 1)
          /\ good \subseteq 1..m
          /\ c_in = CascadeInput(m,
                        [home |-> HomeGroups(m, extra), good |-> good,
                         low_sim |-> CascadeSims.low_sim,
                         good_sim |-> CascadeSims.good_sim,
                         wide |-> wide, echo |-> echo,
                         hit |-> moved.hit, miss |-> moved.miss],
                        sil)
    /\ c_cascades = <<>>
    /\ c_results = <<>>
    /\ c_log = <<>>
    /\ AlignerIdle
    /\ FunctionIdle
    /\ HybridIdle
    /\ GreedyIdle

Reverse(seq) == [i \in 1..Len(seq) |-> seq[Len(seq) + 1 - i]]

\* lines 273-289: nothing to do without results or cascades; else
\* improved_results = list(results) and the cascades are taken right to left
CascadeStart ==
    /\ c_pc = "call"
    /\ c_results' = c_in.results
    /\ \E cascades \in {find_cascade_sequences(c_in.results, CASCADE_THRESHOLD,
                                               MIN_CASCADE_LENGTH)} :
          /\ c_cascades' = Reverse(cascades)
          /\ c_pc' = IF c_in.results = <<>> \/ cascades = <<>>
                     THEN "done" ELSE "loop"
    /\ UNCHANGED <<c_in, c_log, avars, hvars, fvars, gvars>>

\* a replacement that keeps the old right context ayah after the new slice
Replace_KeepsRightContext(improved_results, cascade_start, cascade_end, recovery) ==
    SubSeq(improved_results, 1, Max(0, cascade_start - CONTEXT_AYAHS))
    \o recovery
    \o SubSeq(improved_results, cascade_end + 1, Len(improved_results))

\* lines 301-310: the slice of the extended window is replaced
Replace(improved_results, cascade_start, cascade_end, recovery) ==
    SubSeq(improved_results, 1, Max(0, cascade_start - CONTEXT_AYAHS))
    \o recovery
    \o SubSeq(improved_results,
              Min(Len(improved_results), cascade_end + CONTEXT_AYAHS) + 1,
              Len(improved_results))

\* lines 291-310: one iteration of the loop over reversed(cascades)
RecoverCascade ==
    /\ c_pc = "loop"
    /\ c_cascades # <<>>
    /\ \E recovery \in {_recover_cascade_with_resync(c_in.tx, c_in.segments,
                            c_results, Head(c_cascades)[1], Head(c_cascades)[2],
                            SilencesSec(c_in.silences_ms))} :
          /\ c_results' = IF recovery.found /\ recovery.results # <<>>
                          THEN Replace(c_results, Head(c_cascades)[1],
                                       Head(c_cascades)[2], recovery.results)
                          ELSE c_results
          /\ c_log' = Append(c_log, [cascade |-> Head(c_cascades),
                                     before |-> c_results,
                                     recovery |-> recovery])
    /\ c_cascades' = Tail(c_cascades)
    /\ UNCHANGED <<c_pc, c_in, avars, hvars, fvars, gvars>>

\* line 312: return improved_results
CascadeReturn ==
    /\ c_pc = "loop"
    /\ c_cascades = <<>>
    /\ c_pc' = "done"
    /\ UNCHANGED <<c_in, c_cascades, c_results, c_log, avars, hvars, fvars, gvars>>

CascadeNext == CascadeStart \/ RecoverCascade \/ CascadeReturn

SpecCascade == CascadeInit /\ [][CascadeNext]_vars

\* C1: after apply_cascade_recovery returns, every ayah whose similarity in
\* the list passed in was >= 0.75 has similarity >= 0.70 in the returned list.
C1_GoodAyahsStayAbove70 ==
    c_pc = "done" =>
        \A i \in 1..Len(c_in.results) :
            c_in.results[i].similarity_score >= GOOD_SIMILARITY =>
                c_results[i].similarity_score >= GOOD_FLOOR

\* C11: over a whole apply_cascade_recovery call, against the similarities of
\* the list passed in, no ayah that had >= 0.75 ends more than 0.08 lower and
\* no ayah that had >= 0.50 ends more than 0.12 lower.
C11_DropsBoundedOverCall ==
    c_pc = "done" =>
        \A i \in 1..Len(c_in.results) :
            LET prior == c_in.results[i].similarity_score
                drop == prior - c_results[i].similarity_score
            IN  /\ prior >= GOOD_SIMILARITY => drop <= GOOD_MAX_DROP
                /\ prior >= MEDIOCRE_SIMILARITY => drop <= MEDIOCRE_MAX_DROP

\* C13: for each cascade handled by apply_cascade_recovery, a failed or
\* rejected re-solve leaves the result list as it was; an accepted one changes
\* only the positions of the extended window (cascade plus one context ayah
\* per side, clipped to the list), keeps the length of the list and the ayah at
\* every position, so the cascades still to be processed stay inside the list;
\* the list passed in by the caller is never modified.
C13_RecoveryFrame ==
    [][/\ c_in' = c_in
       /\ c_log' # c_log =>
            LET handled == c_log'[Len(c_log')]
                ext_start == Max(0, handled.cascade[1] - CONTEXT_AYAHS)
                ext_end == Min(Len(c_results), handled.cascade[2] + CONTEXT_AYAHS)
            IN  /\ ~handled.recovery.found => c_results' = c_results
                /\ Len(c_results') = Len(c_results)
                /\ \A i \in 1..Len(c_results) :
                      /\ c_results'[i].ayah = c_results[i].ayah
                      /\ (i <= ext_start \/ i > ext_end) =>
                            c_results'[i] = c_results[i]
                /\ \A k \in 1..Len(c_cascades') :
                      /\ c_cascades'[k][2] <= Len(c_results')
                      /\ c_cascades'[k][2] <= ext_start]_vars

\* C14: whenever a cascade replacement is accepted and its extended window has
\* more than 2 results, the mean similarity over exactly the cascade's own
\* ayat (context excluded, every cascade ayah included) is more than 0.08
\* higher in the candidate than before, also when the cascade touches the
\* first or last result.
C14_CascadeMeanImproves ==
    \A k \in 1..Len(c_log) :
        LET cascade_start == c_log[k].cascade[1]
            cascade_end == c_log[k].cascade[2]
            ext_start == Max(0, cascade_start - CONTEXT_AYAHS)
            ext_end == Min(Len(c_log[k].before), cascade_end + CONTEXT_AYAHS)
        IN  (c_log[k].recovery.found /\ ext_end - ext_start > 2) =>
                SumSims(c_log[k].recovery.results,
                        cascade_start - ext_start + 1, cascade_end - ext_start)
                > SumSims(c_log[k].before, cascade_start + 1, cascade_end)
                  + MIN_IMPROVEMENT * (cascade_end - cascade_start)

\* a re-solve was accepted, changed the list, and a cascade further left is
\* still to be processed
C13_Witness ==
    /\ c_pc = "loop"
    /\ c_cascades # <<>>
    /\ c_log # <<>>
    /\ c_log[Len(c_log)].recovery.found
    /\ c_results # c_log[Len(c_log)].before

-----------------------------------------------------------------------------
(* Aligner.align, statement by statement, called by the driver's threads *)

\* most align calls the driver makes on one instance
MaxCalls == 2

Strategies == {"greedy", "dp", "hybrid"}

AlignInit(threads, p) ==
    /\ self_strategy \in Strategies
    /\ self_quality_threshold = DEFAULT_QUALITY_THRESHOLD
    /\ self_fix_drift \in BOOLEAN
    /\ self_fix_overlaps \in BOOLEAN
    /\ self_last_stats = None
    /\ callers = threads
    /\ pc = [t \in threads |-> "idle"]
    /\ inp = [t \in threads |-> NoInput]
    /\ call_results = [t \in threads |-> <<>>]
    /\ own_stats = [t \in threads |-> None]
    /\ passes = [t \in threads |-> <<>>]
    /\ outcome = [t \in threads |-> "none"]
    /\ seen_stats = [t \in threads |-> None]
    /\ stages = [t \in threads |-> <<>>]
    /\ calls = 0
    /\ profile = p
    /\ HybridIdle
    /\ CascadeIdle
    /\ FunctionIdle
    /\ GreedyIdle

\* the driver calls aligner.align(segments, ayahs, silences_ms, on_progress)
Call(t) ==
    /\ pc[t] \in {"idle", "read", "raised"}
    /\ calls < profile.max_calls
    /\ \E a \in RunArguments(profile) :
           \E x \in RunsOf(profile, a) : inp' = [inp EXCEPT ![t] = x]
    /\ calls' = calls + 1
    /\ pc' = [pc EXCEPT ![t] = "guard"]
    /\ call_results' = [call_results EXCEPT ![t] = <<>>]
    /\ own_stats' = [own_stats EXCEPT ![t] = None]
    /\ passes' = [passes EXCEPT ![t] = <<>>]
    /\ stages' = [stages EXCEPT ![t] = <<>>]
    /\ outcome' = [outcome EXCEPT ![t] = "running"]
    /\ seen_stats' = [seen_stats EXCEPT ![t] = None]
    /\ UNCHANGED <<self_strategy, self_quality_threshold, self_fix_drift,
                   self_fix_overlaps, self_last_stats, callers, profile, hvars, cvars, fvars, gvars>>

\* lines 102-103: if not segments or not ayahs: return []
Guard(t) ==
    /\ pc[t] = "guard"
    /\ IF inp[t].segments = <<>> \/ inp[t].ayahs = <<>>
       THEN /\ pc' = [pc EXCEPT ![t] = "returned"]
            /\ outcome' = [outcome EXCEPT ![t] = "returned"]
            /\ call_results' = [call_results EXCEPT ![t] = <<>>]
       ELSE /\ pc' = [pc EXCEPT ![t] = "clear"]
            /\ UNCHANGED <<outcome, call_results>>
    /\ UNCHANGED <<self_strategy, self_quality_threshold, self_fix_drift,
                   self_fix_overlaps, self_last_stats, callers, inp, own_stats,
                   passes, seen_stats, stages, calls, profile, hvars, cvars, fvars, gvars>>

\* line 106: self._last_stats = None
ClearStats(t) ==
    /\ pc[t] = "clear"
    /\ self_last_stats' = None
    /\ pc' = [pc EXCEPT ![t] = "strategy"]
    /\ UNCHANGED <<self_strategy, self_quality_threshold, self_fix_drift,
                   self_fix_overlaps, callers, inp, call_results, own_stats,
                   passes, outcome, seen_stats, stages, calls, profile, hvars, cvars, fvars, gvars>>

\* lines 109-114 (and 167-173 for the hybrid strategy): the strategy runs; an
\* exception it raises leaves align at once
Strategy(t) ==
    /\ pc[t] = "strategy"
    /\ \E run \in {RunStrategy(self_strategy, inp[t], self_quality_threshold)} :
           IF run.error # "none"
           THEN /\ pc' = [pc EXCEPT ![t] = "raised"]
                /\ outcome' = [outcome EXCEPT ![t] = run.error]
                /\ UNCHANGED <<call_results, own_stats, passes, stages>>
           ELSE /\ pc' = [pc EXCEPT ![t] = IF self_strategy = "hybrid"
                                            THEN "publish" ELSE "drift"]
                /\ call_results' = [call_results EXCEPT ![t] = run.results]
                /\ own_stats' = [own_stats EXCEPT ![t] = run.stats]
                /\ passes' = [passes EXCEPT ![t] = <<self_strategy>>]
                /\ stages' = [stages EXCEPT ![t] = <<run.results>>]
                /\ UNCHANGED outcome
    /\ UNCHANGED <<self_strategy, self_quality_threshold, self_fix_drift,
                   self_fix_overlaps, self_last_stats, callers, inp,
                   seen_stats, calls, profile, hvars, cvars, fvars, gvars>>

\* line 174: self._last_stats = stats
PublishStats(t) ==
    /\ pc[t] = "publish"
    /\ self_last_stats' = own_stats[t]
    /\ pc' = [pc EXCEPT ![t] = "drift"]
    /\ UNCHANGED <<self_strategy, self_quality_threshold, self_fix_drift,
                   self_fix_overlaps, callers, inp, call_results, own_stats,
                   passes, outcome, seen_stats, stages, calls, profile, hvars, cvars, fvars, gvars>>

\* lines 117-118: if self.fix_drift and results: results = _apply_drift_fix(..)
DriftFix(t) ==
    /\ pc[t] = "drift"
    /\ \E st \in {DriftStage(self_fix_drift, call_results[t], inp[t],
                             self_quality_threshold)} :
           /\ call_results' = [call_results EXCEPT ![t] = st.results]
           /\ passes' = [passes EXCEPT ![t] = @ \o st.passes]
           /\ stages' = [stages EXCEPT ![t] =
                            @ \o [i \in 1..Len(st.passes) |-> st.results]]
    /\ pc' = [pc EXCEPT ![t] = "overlap"]
    /\ UNCHANGED <<self_strategy, self_quality_threshold, self_fix_drift,
                   self_fix_overlaps, self_last_stats, callers, inp, own_stats,
                   outcome, seen_stats, calls, profile, hvars, cvars, fvars, gvars>>

\* lines 120-121: if self.fix_overlaps and results: _apply_overlap_fix(results)
OverlapFix(t) ==
    /\ pc[t] = "overlap"
    /\ \E st \in {OverlapStage(self_fix_overlaps, call_results[t])} :
           /\ call_results' = [call_results EXCEPT ![t] = st.results]
           /\ passes' = [passes EXCEPT ![t] = @ \o st.passes]
           /\ stages' = [stages EXCEPT ![t] =
                            @ \o [i \in 1..Len(st.passes) |-> st.results]]
    /\ pc' = [pc EXCEPT ![t] = "return"]
    /\ UNCHANGED <<self_strategy, self_quality_threshold, self_fix_drift,
                   self_fix_overlaps, self_last_stats, callers, inp, own_stats,
                   outcome, seen_stats, calls, profile, hvars, cvars, fvars, gvars>>

\* line 123: return results
Return(t) ==
    /\ pc[t] = "return"
    /\ pc' = [pc EXCEPT ![t] = "returned"]
    /\ outcome' = [outcome EXCEPT ![t] = "returned"]
    /\ UNCHANGED <<self_strategy, self_quality_threshold, self_fix_drift,
                   self_fix_overlaps, self_last_stats, callers, inp,
                   call_results, own_stats, passes, seen_stats, stages, calls,
                   profile, hvars, cvars, fvars, gvars>>

\* lines 75-78: the caller reads aligner.last_stats right after align returned
ReadStats(t) ==
    /\ pc[t] = "returned"
    /\ seen_stats' = [seen_stats EXCEPT ![t] = self_last_stats]
    /\ pc' = [pc EXCEPT ![t] = "read"]
    /\ UNCHANGED <<self_strategy, self_quality_threshold, self_fix_drift,
                   self_fix_overlaps, self_last_stats, callers, inp,
                   call_results, own_stats, passes, outcome, stages, calls,
                   profile, hvars, cvars, fvars, gvars>>

AlignNext ==
    \/ \E t \in callers : Call(t)
    \/ \E t \in callers : Guard(t)
    \/ \E t \in callers : ClearStats(t)
    \/ \E t \in callers : Strategy(t)
    \/ \E t \in callers : PublishStats(t)
    \/ \E t \in callers : DriftFix(t)
    \/ \E t \in callers : OverlapFix(t)
    \/ \E t \in callers : Return(t)
    \/ \E t \in callers : ReadStats(t)

\* one caller, runs of up to MaxSeg + 1 segments and MaxAy + 1 ayat
AlignProfile ==
    [segment_lists |-> SegmentLists(MaxSeg + 1, {FALSE}) \cup BadSegmentLists,
     ayah_lists |-> AyahLists(MaxAy + 1, {FALSE}),
     silence_lists |-> {<<>>} \cup BadSilenceLists,
     callbacks |-> {"none", "raises"},
     dp_sims |-> {60, 90}, old_sims |-> {70}, split_sims |-> {64},
     zone_sims |-> {88}, max_calls |-> 1]

SpecAlign == AlignInit({1}, AlignProfile) /\ [][AlignNext]_vars

-----------------------------------------------------------------------------
(* Claims about one call of Aligner.align *)

Finished(t) == pc[t] \in {"returned", "raised", "read"}

\* lines 80-123 as one function of the arguments and the instance's settings
align(strat, in, q, drift, overlaps) ==
    IF in.segments = <<>> \/ in.ayahs = <<>>
    THEN [outcome |-> "returned", results |-> <<>>]
    ELSE LET run == RunStrategy(strat, in, q)
         IN  IF run.error # "none"
             THEN [outcome |-> run.error, results |-> <<>>]
             ELSE [outcome |-> "returned",
                   results |-> OverlapStage(overlaps,
                                  DriftStage(drift, run.results, in, q).results
                               ).results]

\* C3: after align with fix_overlaps enabled, every returned result has
\* start <= end and ends no later than the next result starts.
C3_NoOverlapAfterFix ==
    \A t \in callers :
        (outcome[t] = "returned" /\ self_fix_overlaps) =>
            LET r == call_results[t]
            IN  /\ \A i \in 1..Len(r) : r[i].start_time <= r[i].end_time
                /\ \A i \in 1..Len(r) - 1 : r[i].end_time <= r[i + 1].start_time

\* C5: align given invalid input (segments out of order, a negative time, an
\* empty ayah list with segments, a silence pair with end <= start) reports
\* InvalidInput and produces no results.
C5_InvalidInputReported ==
    \A t \in callers :
        (Finished(t) /\ ~ValidInput(inp[t].segments, inp[t].ayahs,
                                    inp[t].silences_ms)) =>
            outcome[t] = "InvalidInput" /\ call_results[t] = <<>>

\* the passes a call that ran the strategy must have made, given its output
PassesAfter(strategy_output) ==
    (IF self_fix_drift /\ strategy_output # <<>>
     THEN <<"zones", "anchors">> ELSE <<>>)
    \o (IF self_fix_overlaps /\ strategy_output # <<>>
        THEN <<"overlaps">> ELSE <<>>)

\* the steps of a returned call are one strategy, then the passes its toggles
\* select; with both toggles off the strategy's output is what is returned
OneStrategyThenPasses(t) ==
    /\ passes[t] # <<>>
    /\ passes[t][1] = self_strategy
    /\ passes[t] = <<self_strategy>> \o PassesAfter(stages[t][1])
    /\ (~self_fix_drift /\ ~self_fix_overlaps) => call_results[t] = stages[t][1]

ParallelProfile ==
    [segment_lists |-> SegmentLists(MaxSeg - 1, {FALSE}) \ {<<>>},
     ayah_lists |-> AyahLists(MaxAy, {FALSE}) \ {<<>>},
     silence_lists |-> {<<>>},
     callbacks |-> {"none"},
     dp_sims |-> {60, 90}, old_sims |-> {70}, split_sims |-> {64},
     zone_sims |-> {0}, max_calls |-> MaxCalls]

SpecParallel == AlignInit({1, 2}, ParallelProfile) /\ [][AlignNext]_vars

\* C9: with two align calls interleaved on one instance, the HybridStats a
\* caller reads through last_stats right after its call returns are the stats
\* of that call.
C9_StatsOfOwnCall ==
    \A t \in callers :
        (pc[t] = "read" /\ self_strategy = "hybrid") =>
            seen_stats[t] = own_stats[t]

-----------------------------------------------------------------------------
(* One call of find_cascade_sequences *)

\* longest result list of a call
MaxRun == 5

\* the similarities of the results: below, at and above the threshold
RunSims == {69, 70, 71}

RunLists == UNION { [1..n -> { [similarity_score |-> s] : s \in RunSims }] : n \in 0..MaxRun }

FindCascadesInit ==
    /\ f_pc = "call"
    /\ \E results \in RunLists, min_cascade_length \in 1..3 :
          f_in = [results |-> results, threshold |-> CASCADE_THRESHOLD,
                  min_cascade_length |-> min_cascade_length]
    /\ f_out = None
    /\ AlignerIdle
    /\ HybridIdle
    /\ CascadeIdle
    /\ GreedyIdle

FindCascades ==
    /\ f_pc = "call"
    /\ f_out' = find_cascade_sequences(f_in.results, f_in.threshold,
                                       f_in.min_cascade_length)
    /\ f_pc' = "done"
    /\ UNCHANGED <<f_in, avars, hvars, cvars, gvars>>

SpecFindCascades == FindCascadesInit /\ [][FindCascades]_vars

\* the 0-based half-open pairs (s, e) of the maximal runs of results below the
\* threshold that have at least min_cascade_length results
MaximalLowRuns(results, threshold, min_cascade_length) ==
    { r \in (0..Len(results)) \X (0..Len(results)) :
        /\ r[2] - r[1] >= min_cascade_length
        /\ r[2] > r[1]
        /\ \A i \in (r[1] + 1)..r[2] : results[i].similarity_score < threshold
        /\ r[1] = 0 \/ results[r[1]].similarity_score >= threshold
        /\ r[2] = Len(results) \/ results[r[2] + 1].similarity_score >= threshold }

\* C12: find_cascade_sequences returns exactly the maximal runs of consecutive
\* results strictly below the threshold with length >= min_cascade_length, as
\* half-open pairs in ascending order, disjoint and never adjacent; a result
\* at the threshold ends a run.
C12_CascadesAreMaximalRuns ==
    f_pc = "done" =>
        /\ { f_out[k] : k \in 1..Len(f_out) }
             = MaximalLowRuns(f_in.results, f_in.threshold, f_in.min_cascade_length)
        /\ \A k \in 1..(Len(f_out) - 1) : f_out[k][2] < f_out[k + 1][1]

\* two cascades separated by one result exactly at the threshold
C12_Witness ==
    /\ f_pc = "done"
    /\ Len(f_out) = 2
    /\ f_out[1][2] + 1 = f_out[2][1]
    /\ f_in.results[f_out[2][1]].similarity_score = f_in.threshold

-----------------------------------------------------------------------------
(* One call of Aligner._apply_drift_fix *)

\* longest result list handed to the drift fix
MaxZone == 5

\* the thresholds an Aligner is configured with: below, at and above the default
QualityThresholds == {75, DEFAULT_QUALITY_THRESHOLD, 95}

\* the similarities of the results handed in, and what a zone re-solve reaches
ZoneSims == [results |-> {60, 80, 90}, zone_sim |-> 99]

DriftResults ==
    UNION { { [i \in 1..n |->
                 AlignmentResult([ayah_number |-> i, words |-> ShortWords],
                                 (i - 1) * SegDur, i * SegDur, <<i, i>>, s[i])] :
              s \in [1..n -> ZoneSims.results] } : n \in 1..MaxZone }

DriftFixInit ==
    /\ f_pc = "call"
    /\ \E results \in DriftResults, q \in QualityThresholds :
          f_in = [results |-> results, quality_threshold |-> q,
                  run |-> [NoInput EXCEPT !.zone_sim = ZoneSims.zone_sim]]
    /\ f_out = None
    /\ AlignerIdle
    /\ HybridIdle
    /\ CascadeIdle
    /\ GreedyIdle

ApplyDriftFix ==
    /\ f_pc = "call"
    /\ f_out' = _apply_drift_fix(f_in.results, f_in.run, f_in.quality_threshold)
    /\ f_pc' = "done"
    /\ UNCHANGED <<f_in, avars, hvars, cvars, gvars>>

SpecDriftFix == DriftFixInit /\ [][ApplyDriftFix]_vars

\* the similarity scores of a result list, in order
Scores(results) == [i \in 1..Len(results) |-> results[i].similarity_score]

\* C15: the quality threshold Q configured on the Aligner is the threshold of
\* every drift-fix pass: the problem-zone pass and the anchor-based pass both
\* classify results as low-quality or anchor against Q, whatever Q is.
C15_DriftPassesUseQ ==
    f_pc = "done" =>
        Scores(f_out) =
            Scores(realign_from_anchors(
                       realign_problem_zones(f_in.results, f_in.quality_threshold,
                                             f_in.run.zone_sim),
                       f_in.quality_threshold, f_in.run.zone_sim))

-----------------------------------------------------------------------------
(* src/align_segments.py: normalize_arabic (the same function is in
   src/transcribe.py) *)

\* a text is a sequence of characters; a character is named by its class:
\* the alef variants, alef maqsura and yeh, teh marbuta and heh, any other
\* letter, a diacritic or punctuation mark, and two kinds of whitespace
AlefVariants == {"alef_hamza", "alef_madda", "alef"}

WordChars == AlefVariants \cup {"alef_maqsura", "yeh", "teh_marbuta", "heh", "letter"}

WhiteSpace == {"space", "newline"}

IsWordOrSpace(c) == c \in WordChars \cup WhiteSpace

\* re.sub of a character class by one character
SubChars(text, class, by) ==
    [i \in 1..Len(text) |-> IF text[i] \in class THEN by ELSE text[i]]

\* line 19: re.sub(r"[^\w\s]", "", text)
RemoveMarks(text) == SelectSeq(text, IsWordOrSpace)

\* line 20: re.sub(r"\s+", " ", text): every run of whitespace becomes a space
RECURSIVE CollapseSpaces(_)
CollapseSpaces(text) ==
    IF text = <<>> THEN <<>>
    ELSE IF Head(text) \notin WhiteSpace
    THEN <<Head(text)>> \o CollapseSpaces(Tail(text))
    ELSE IF Len(text) > 1 /\ text[2] \in WhiteSpace
    THEN CollapseSpaces(Tail(text))
    ELSE <<"space">> \o CollapseSpaces(Tail(text))

\* str.strip(): leading and trailing whitespace removed
RECURSIVE Strip(_)
Strip(text) ==
    IF text = <<>> THEN <<>>
    ELSE IF Head(text) \in WhiteSpace THEN Strip(Tail(text))
    ELSE IF text[Len(text)] \in WhiteSpace
    THEN Strip(SubSeq(text, 1, Len(text) - 1))
    ELSE text

\* whitespace is collapsed before the marks are removed
normalize_arabic_CollapsesFirst(text) ==
    RemoveMarks(Strip(CollapseSpaces(
        SubChars(SubChars(SubChars(text, AlefVariants, "alef"),
                          {"alef_maqsura"}, "yeh"),
                 {"teh_marbuta"}, "heh"))))

\* lines 16-20
normalize_arabic(text) ==
    Strip(CollapseSpaces(RemoveMarks(
        SubChars(SubChars(SubChars(text, AlefVariants, "alef"),
                          {"alef_maqsura"}, "yeh"),
                 {"teh_marbuta"}, "heh"))))

\* longest text normalized
MaxText == 4

TextChars ==
    {"alef_hamza", "alef", "alef_maqsura", "yeh", "teh_marbuta", "letter",
     "mark", "space", "newline"}

Texts(n) == UNION { [1..k -> TextChars] : k \in 0..n }

NormalizeInit ==
    /\ f_pc = "call"
    /\ \E text \in Texts(MaxText) : f_in = [text |-> text]
    /\ f_out = None
    /\ AlignerIdle
    /\ HybridIdle
    /\ CascadeIdle
    /\ GreedyIdle

\* normalize_arabic(text), and normalize_arabic of what it returned
Normalize ==
    /\ f_pc = "call"
    /\ \E once \in {normalize_arabic(f_in.text)} :
          f_out' = [once |-> once, twice |-> normalize_arabic(once)]
    /\ f_pc' = "done"
    /\ UNCHANGED <<f_in, avars, hvars, cvars, gvars>>

SpecNormalize == NormalizeInit /\ [][Normalize]_vars

\* C17: normalize_arabic is idempotent: on every text over alef variants,
\* alef maqsura, teh marbuta, other letters, marks and whitespace,
\* normalize_arabic(normalize_arabic(x)) = normalize_arabic(x).
C17_NormalizeIdempotent ==
    f_pc = "done" => f_out.twice = f_out.once

\* a text with an alef variant and a mark between two spaces was normalized
C17_Witness ==
    /\ f_pc = "done"
    /\ \E i \in 1..(Len(f_in.text) - 2) :
          /\ f_in.text[i] = "space"
          /\ f_in.text[i + 1] = "mark"
          /\ f_in.text[i + 2] = "space"
    /\ \E i \in 1..Len(f_in.text) : f_in.text[i] = "alef_hamza"
    /\ f_out.once # f_in.text

-----------------------------------------------------------------------------
(* src/align_segments.py: similarity, that is
   difflib.SequenceMatcher(None, a, b).ratio() *)

\* the length of the common run of a and b that starts at the 0-based
\* positions i and j and stays below ahi and bhi
RECURSIVE RunLength(_, _, _, _, _, _)
RunLength(a, b, i, j, ahi, bhi) ==
    IF i < ahi /\ j < bhi /\ a[i + 1] = b[j + 1]
    THEN 1 + RunLength(a, b, i + 1, j + 1, ahi, bhi)
    ELSE 0

\* SequenceMatcher.find_longest_match(alo, ahi, blo, bhi) without junk: of
\* the longest common blocks the one that starts earliest in a, and of those
\* the one that starts earliest in b
find_longest_match(a, b, alo, ahi, blo, bhi) ==
    LET size(c) == RunLength(a, b, c[1], c[2], ahi, bhi)
        best == CHOOSE c \in (alo..(ahi - 1)) \X (blo..(bhi - 1)) :
                    \A d \in (alo..(ahi - 1)) \X (blo..(bhi - 1)) :
                        \/ size(c) > size(d)
                        \/ /\ size(c) = size(d)
                           /\ \/ c[1] < d[1]
                              \/ c[1] = d[1] /\ c[2] <= d[2]
    IN  [i |-> best[1], j |-> best[2], size |-> size(best)]

\* SequenceMatcher.get_matching_blocks: the block, then the blocks to its left
\* and to its right; MatchedIn is the sum of their sizes
RECURSIVE MatchedIn(_, _, _, _, _, _)
MatchedAround(a, b, alo, ahi, blo, bhi, m) ==
    IF m.size = 0 THEN 0
    ELSE m.size + MatchedIn(a, b, alo, m.i, blo, m.j)
                + MatchedIn(a, b, m.i + m.size, ahi, m.j + m.size, bhi)

MatchedIn(a, b, alo, ahi, blo, bhi) ==
    IF alo >= ahi \/ blo >= bhi THEN 0
    ELSE MatchedAround(a, b, alo, ahi, blo, bhi,
                       find_longest_match(a, b, alo, ahi, blo, bhi))

\* SequenceMatcher.ratio(): 2.0 * matches / length, 1.0 when length is 0; the
\* ratio is kept as the fraction matches2 / length
SequenceMatcher_ratio(a, b) ==
    IF Len(a) + Len(b) = 0 THEN [matches2 |-> 1, length |-> 1]
    ELSE [matches2 |-> 2 * MatchedIn(a, b, 0, Len(a), 0, Len(b)),
          length |-> Len(a) + Len(b)]

\* lines 23-25
align_segments_similarity(a, b) == SequenceMatcher_ratio(a, b)

\* longest string scored
MaxString == 3

StringChars == {"alef", "yeh", "letter"}

Strings(n) == UNION { [1..k -> StringChars] : k \in 0..n }

SimilarityInit ==
    /\ f_pc = "call"
    /\ \E a \in Strings(MaxString), b \in Strings(MaxString) :
          f_in = [a |-> a, b |-> b]
    /\ f_out = None
    /\ AlignerIdle
    /\ HybridIdle
    /\ CascadeIdle
    /\ GreedyIdle

\* similarity(a, b), similarity(b, a) and similarity(a, a)
Similarity ==
    /\ f_pc = "call"
    /\ f_out' = [ab |-> align_segments_similarity(f_in.a, f_in.b),
                 ba |-> align_segments_similarity(f_in.b, f_in.a),
                 aa |-> align_segments_similarity(f_in.a, f_in.a)]
    /\ f_pc' = "done"
    /\ UNCHANGED <<f_in, avars, hvars, cvars, gvars>>

SpecSimilarity == SimilarityInit /\ [][Similarity]_vars

\* C18: the similarity scorer is symmetric and reflexive: for all strings a
\* and b, similarity(a, b) = similarity(b, a) and similarity(a, a) = 1.
C18_SimilaritySymmetricReflexive ==
    f_pc = "done" =>
        /\ f_out.ab = f_out.ba
        /\ f_out.aa.matches2 = f_out.aa.length

-----------------------------------------------------------------------------
(* src/align_segments.py: remove_overlap *)

\* str.split(): the words of a text, the maximal runs without whitespace;
\* word is the word being read
RECURSIVE SplitFrom(_, _)
SplitFrom(text, word) ==
    IF text = <<>> THEN (IF word = <<>> THEN <<>> ELSE <<word>>)
    ELSE IF Head(text) \in WhiteSpace
    THEN (IF word = <<>> THEN <<>> ELSE <<word>>) \o SplitFrom(Tail(text), <<>>)
    ELSE SplitFrom(Tail(text), Append(word, Head(text)))

Split(text) == SplitFrom(text, <<>>)

\* " ".join(words)
RECURSIVE Join(_)
Join(words) ==
    IF words = <<>> THEN <<>>
    ELSE IF Len(words) = 1 THEN words[1]
    ELSE words[1] \o <<"space">> \o Join(Tail(words))

\* Counter(words): how often each word occurs
Counter(words) ==
    [w \in { words[i] : i \in 1..Len(words) } |->
        Cardinality({ i \in 1..Len(words) : words[i] = w })]

\* count1[w], 0 for a missing key
CountOf(count1, w) == IF w \in DOMAIN count1 THEN count1[w] ELSE 0

\* lines 40-44: the words of text2 from the k-th on that are kept
RECURSIVE CleanedWords(_, _, _)
CleanedWords(words2, k, count1) ==
    IF k > Len(words2) THEN <<>>
    ELSE IF CountOf(count1, normalize_arabic(words2[k])) > 0
    THEN CleanedWords(words2, k + 1,
             [count1 EXCEPT ![normalize_arabic(words2[k])] = @ - 1])
    ELSE <<words2[k]>> \o CleanedWords(words2, k + 1, count1)

\* lines 45-47
MergedText(text1, cleaned_words2) ==
    IF cleaned_words2 = <<>> THEN Strip(text1)
    ELSE Strip(text1) \o <<"space">> \o Strip(Join(cleaned_words2))

\* lines 34-47: the merged text and the overlap flag
remove_overlap(text1, text2) ==
    [merged_text |->
         MergedText(text1,
             CleanedWords(Split(text2), 1, Counter(Split(normalize_arabic(text1))))),
     overlap_found |-> TRUE]

OverlapChars == {"alef_hamza", "alef", "letter", "space"}

OverlapTexts == UNION { [1..k -> OverlapChars] : k \in 0..MaxString }

RemoveOverlapInit ==
    /\ f_pc = "call"
    /\ \E text1 \in OverlapTexts, text2 \in OverlapTexts :
          f_in = [text1 |-> text1, text2 |-> text2]
    /\ f_out = None
    /\ AlignerIdle
    /\ HybridIdle
    /\ CascadeIdle
    /\ GreedyIdle

RemoveOverlap ==
    /\ f_pc = "call"
    /\ f_out' = remove_overlap(f_in.text1, f_in.text2)
    /\ f_pc' = "done"
    /\ UNCHANGED <<f_in, avars, hvars, cvars, gvars>>

SpecRemoveOverlap == RemoveOverlapInit /\ [][RemoveOverlap]_vars

\* the words of a text, normalized one by one
NormalizedWords(text) ==
    [i \in 1..Len(Split(text)) |-> normalize_arabic(Split(text)[i])]

\* the words of the next segment that the merge kept
KeptWords(text1, merged_text) ==
    SubSeq(Split(merged_text), Len(Split(text1)) + 1, Len(Split(merged_text)))

\* the tokens removed are the first `dropped` tokens of the next segment,
\* they are the last `dropped` tokens of the buffer (as multisets, so each is
\* dropped at most as often as it is counted), and the rest is kept in order
DropsPrefix(text1, text2, kept, dropped) ==
    /\ kept = SubSeq(Split(text2), dropped + 1, Len(Split(text2)))
    /\ dropped <= Len(Split(text1))
    /\ Counter(SubSeq(NormalizedWords(text2), 1, dropped))
         = Counter(SubSeq(NormalizedWords(text1),
                          Len(Split(text1)) - dropped + 1, Len(Split(text1))))

\* C19: when the greedy merge appends the next segment to the buffer, the
\* only tokens removed from the next segment are a leading run of its tokens
\* that duplicates a suffix of the buffer, each dropped at most as many times
\* as it is counted; every token after that prefix is kept.
C19_OnlyOverlappingPrefixDropped ==
    f_pc = "done" =>
        \E dropped \in 0..Len(Split(f_in.text2)) :
            DropsPrefix(f_in.text1, f_in.text2,
                        KeptWords(f_in.text1, f_out.merged_text), dropped)

-----------------------------------------------------------------------------
(* src/align_segments.py: clean_and_merge_segments, the greedy merge loop.
   The database rows and the JSON file it writes hold what cleaned_segments
   holds. *)

\* lines 131 and 170: the cue threshold 0.6, in hundredths
CUE_SIMILARITY == 60

\* ratio >= 0.6 and ratio > 0.6
AtLeastCue(ratio) == FULL_SCORE * ratio.matches2 >= CUE_SIMILARITY * ratio.length

AboveCue(ratio) == FULL_SCORE * ratio.matches2 > CUE_SIMILARITY * ratio.length

\* lines 27-32
get_first_last_words(text, n) ==
    LET words == Split(normalize_arabic(text))
    IN  [first |-> Join(IF Len(words) >= n THEN SubSeq(words, 1, n) ELSE words),
         last |-> Join(IF Len(words) >= n
                       THEN SubSeq(words, Len(words) - n + 1, Len(words))
                       ELSE words)]

\* only the last word and the first word are compared
N_CHECK_One(ayah_text) == 1

\* lines 113-118 and 161-166: N_CHECK from the word count of the ayah
N_CHECK(ayah_text) ==
    IF Len(Split(Strip(ayah_text))) >= 3 THEN 3
    ELSE IF Len(Split(Strip(ayah_text))) = 2 THEN 2
    ELSE 1

\* lines 120-122 and 131: the last words of the buffer match the ayah's
TailCue(merged_text, ayah_text) ==
    AtLeastCue(align_segments_similarity(
        get_first_last_words(merged_text, N_CHECK(ayah_text)).last,
        get_first_last_words(ayah_text, N_CHECK(ayah_text)).last))

\* lines 167-170: the first words of the next segment match the next ayah's
HeadCue(next_text, next_ayah_text) ==
    AboveCue(align_segments_similarity(
        get_first_last_words(next_text, N_CHECK(next_ayah_text)).first,
        get_first_last_words(next_ayah_text, N_CHECK(next_ayah_text)).first))

\* lines 105-108: the buffer starts with segment i; `first` remembers i
NewBuffer(segment, i) ==
    [start_time |-> segment.start, merged_text |-> segment.text,
     end_time |-> segment.end, overlap_flag |-> FALSE, first |-> i]

\* the next segment's text is merged and the end of the buffer stays
MergedBuffer_KeepsEnd(buf, next_segment) ==
    [buf EXCEPT !.merged_text =
                    remove_overlap(buf.merged_text, next_segment.text).merged_text,
                !.overlap_flag =
                    buf.overlap_flag
                    \/ remove_overlap(buf.merged_text, next_segment.text).overlap_found]

\* lines 198-201
MergedBuffer(buf, next_segment) ==
    [buf EXCEPT !.merged_text =
                    remove_overlap(buf.merged_text, next_segment.text).merged_text,
                !.overlap_flag =
                    buf.overlap_flag
                    \/ remove_overlap(buf.merged_text, next_segment.text).overlap_found,
                !.end_time = next_segment.end]

\* lines 143-154, 181-192 and 215-226: the entry appended to
\* cleaned_segments; first and last are the 0-based indices of the first and
\* the last segment merged into the buffer
CleanedSegment(cleaned_segments, ayah_index, buf, segments, i) ==
    [id |-> Len(cleaned_segments) + 1, ayah_index |-> ayah_index,
     start |-> buf.start_time, end |-> buf.end_time,
     transcribed_text |-> buf.merged_text,
     start_id |-> segments[i + 1].id, end_id |-> segments[i + 1].id,
     first |-> buf.first, last |-> i]

\* most segments and most ayahs of a greedy run
MaxGreedySeg == 3

MaxGreedyAy == 2

\* the texts of the segments and of the ayahs
GreedyTexts ==
    { <<"alef">>, <<"yeh">>, <<"alef", "space", "yeh">>,
      <<"yeh", "space", "alef", "space", "alef", "space", "alef">> }

GreedySegments ==
    UNION { { [i \in 1..n |-> [id |-> i, start |-> (i - 1) * SegDur,
                               end |-> i * SegDur, text |-> tx[i]]] :
              tx \in [1..n -> GreedyTexts] } : n \in 0..MaxGreedySeg }

GreedyAyahs ==
    UNION { { [j \in 1..m |-> [index |-> j, text |-> tx[j]]] :
              tx \in [1..m -> GreedyTexts] } : m \in 0..MaxGreedyAy }

\* lines 66-102: the segments and ayahs are loaded, i = 0, ayah_index = 0
GreedyInit ==
    /\ g_pc = "while"
    /\ \E segments \in GreedySegments, ayahs \in GreedyAyahs :
          g_in = [segments |-> segments, ayahs |-> ayahs]
    /\ g_i = 0
    /\ g_ayah_index = 0
    /\ g_buf = None
    /\ g_cleaned_segments = <<>>
    /\ AlignerIdle
    /\ HybridIdle
    /\ CascadeIdle
    /\ FunctionIdle

\* lines 104-108: the outer loop takes segment i as the start of a buffer
GreedyTake ==
    /\ g_pc = "while"
    /\ g_i < Len(g_in.segments) /\ g_ayah_index < Len(g_in.ayahs)
    /\ g_buf' = NewBuffer(g_in.segments[g_i + 1], g_i)
    /\ g_pc' = "compare"
    /\ UNCHANGED <<g_in, g_i, g_ayah_index, g_cleaned_segments,
                   avars, hvars, cvars, fvars>>

\* line 104 false, lines 232-237: cleaned_segments is saved
GreedyReturn ==
    /\ g_pc = "while"
    /\ ~(g_i < Len(g_in.segments) /\ g_ayah_index < Len(g_in.ayahs))
    /\ g_pc' = "done"
    /\ UNCHANGED <<g_in, g_i, g_ayah_index, g_buf, g_cleaned_segments,
                   avars, hvars, cvars, fvars>>

\* the append, ayah_index += 1 and break, without line 230
GreedyEmit_KeepsSegment ==
    /\ g_cleaned_segments' =
           Append(g_cleaned_segments,
                  CleanedSegment(g_cleaned_segments, g_ayah_index, g_buf,
                                 g_in.segments, g_i))
    /\ g_ayah_index' = g_ayah_index + 1
    /\ g_pc' = "while"
    /\ UNCHANGED <<g_in, g_i, g_buf, avars, hvars, cvars, fvars>>

\* the append, ayah_index += 1, break, and line 230: i += 1
GreedyEmit ==
    /\ g_cleaned_segments' =
           Append(g_cleaned_segments,
                  CleanedSegment(g_cleaned_segments, g_ayah_index, g_buf,
                                 g_in.segments, g_i))
    /\ g_ayah_index' = g_ayah_index + 1
    /\ g_i' = g_i + 1
    /\ g_pc' = "while"
    /\ UNCHANGED <<g_in, g_buf, avars, hvars, cvars, fvars>>

\* line 131
TailCueFires ==
    TailCue(g_buf.merged_text, g_in.ayahs[g_ayah_index + 1].text)

\* lines 159-170
HeadCueFires ==
    /\ g_ayah_index + 1 < Len(g_in.ayahs)
    /\ HeadCue(g_in.segments[g_i + 2].text, g_in.ayahs[g_ayah_index + 2].text)

\* lines 131-156
EmitOnTail ==
    /\ g_pc = "compare"
    /\ TailCueFires
    /\ GreedyEmit

\* lines 159-194
EmitOnHead ==
    /\ g_pc = "compare"
    /\ ~TailCueFires
    /\ g_i + 1 < Len(g_in.segments)
    /\ HeadCueFires
    /\ GreedyEmit

\* lines 196-202: the next segment is merged into the buffer
Merge ==
    /\ g_pc = "compare"
    /\ ~TailCueFires
    /\ g_i + 1 < Len(g_in.segments)
    /\ ~HeadCueFires
    /\ g_buf' = MergedBuffer(g_buf, g_in.segments[g_i + 2])
    /\ g_i' = g_i + 1
    /\ UNCHANGED <<g_pc, g_in, g_ayah_index, g_cleaned_segments,
                   avars, hvars, cvars, fvars>>

\* lines 203-228: no segment is left
EmitAtEnd ==
    /\ g_pc = "compare"
    /\ ~TailCueFires
    /\ ~(g_i + 1 < Len(g_in.segments))
    /\ GreedyEmit

GreedyNext ==
    \/ GreedyTake
    \/ GreedyReturn
    \/ EmitOnTail
    \/ EmitOnHead
    \/ Merge
    \/ EmitAtEnd

SpecGreedy == GreedyInit /\ [][GreedyNext]_vars

-----------------------------------------------------------------------------
(* The results before any repair pass: those of the greedy merge loop and
   the candidates the cascade re-solve builds *)

UnrepairedNext == GreedyNext \/ CascadeNext

SpecUnrepaired == (GreedyInit \/ CascadeInit) /\ [][UnrepairedNext]_vars

\* the result spans the segments first..last (1-based) of segments
SpansGroup(segments, first, last, start, end) ==
    /\ first \in 1..Len(segments)
    /\ last \in first..Len(segments)
    /\ start = segments[first].start
    /\ end = segments[last].end

\* C20: every entry the greedy loop has appended to cleaned_segments starts
\* at the start of the first segment merged into it and ends at the end of
\* the last one, and so does every result of a candidate that the cascade
\* re-solve returned, over the segments whose texts it joined.
C20_SpanIsThatOfTheGroup ==
    /\ \A k \in 1..Len(g_cleaned_segments) :
          SpansGroup(g_in.segments, g_cleaned_segments[k].first + 1,
                     g_cleaned_segments[k].last + 1,
                     g_cleaned_segments[k].start, g_cleaned_segments[k].end)
    /\ \A n \in 1..Len(c_log) : \A p \in 1..Len(c_log[n].recovery.results) :
          SpansGroup(c_in.segments,
                     c_log[n].recovery.results[p].transcribed_text[1],
                     c_log[n].recovery.results[p].transcribed_text[2],
                     c_log[n].recovery.results[p].start_time,
                     c_log[n].recovery.results[p].end_time)

\* a greedy entry that merged several segments, after an earlier entry
C20_Witness ==
    /\ g_pc = "done"
    /\ \E k \in 2..Len(g_cleaned_segments) :
          g_cleaned_segments[k].first < g_cleaned_segments[k].last

\* a candidate of the cascade re-solve with a result of several segments
C20_CandidateWitness ==
    \E n \in 1..Len(c_log) : \E p \in 1..Len(c_log[n].recovery.results) :
        c_log[n].recovery.results[p].transcribed_text[1]
            < c_log[n].recovery.results[p].transcribed_text[2]

-----------------------------------------------------------------------------
(* The DP solve of _recover_cascade_with_resync over one window: lines 101-173 *)

\* most ayat and most segments of a window
MaxDpAyahs == 2

MaxDpSegs == 8

\* the ways to give the first i sub-segments to the first j sub-ayat in
\* contiguous non-empty groups of at most K segments, as paths
RECURSIVE GroupingsTo(_, _, _)
GroupingsTo(i, j, K) ==
    IF j = 0 THEN (IF i = 0 THEN {<<>>} ELSE {})
    ELSE UNION { { Append(g, [seg_start |-> i - k, seg_end |-> i, ayah_idx |-> j]) :
                   g \in GroupingsTo(i - k, j - 1, K) } : k \in 1..Min(K, i) }

\* the first alignment gave the m ayat the n segments in these groups
HomesOf(n, m) ==
    { [j \in 1..m |-> <<g[j].seg_start + 1, g[j].seg_end>>] :
      g \in GroupingsTo(n, m, n) }

\* the arguments of a call whose window is the whole run of n segments
ResolveInput(n, m, tx, sil) ==
    LET segments == [i \in 1..n |->
                        [start |-> (i - 1) * SegDur, end |-> i * SegDur,
                         blank |-> FALSE]]
        ayahs == [j \in 1..m |-> [ayah_number |-> j, words |-> ShortWords]]
    IN  [tx |-> tx,
         segments |-> segments,
         ayahs |-> ayahs,
         results |-> [j \in 1..m |->
                        AlignmentResult(ayahs[j],
                            segments[tx.home[j][1]].start,
                            segments[tx.home[j][2]].end,
                            tx.home[j],
                            similarity(tx, j, tx.home[j][1], tx.home[j][2]))],
         silences_ms |-> IF sil = 0 THEN <<>>
                         ELSE << <<sil * SegDur * MS_PER_DS,
                                   (sil * SegDur + 10) * MS_PER_DS>> >>]

LocalResolveInit ==
    /\ f_pc = "call"
    /\ \E m \in 1..MaxDpAyahs, n \in 1..MaxDpSegs, good \in SUBSET (1..MaxDpAyahs),
          wide \in CascadeSims.wide, moved \in CascadeSims.moved,
          sil \in SilenceAfter :
          /\ m <= n
          /\ good \subseteq 1..m
          /\ \E home \in HomesOf(n, m) :
                f_in = ResolveInput(n, m,
                           [home |-> home, good |-> good,
                            low_sim |-> CascadeSims.low_sim,
                            good_sim |-> CascadeSims.good_sim,
                            wide |-> wide, echo |-> CascadeSims.low_sim,
                            hit |-> moved.hit, miss |-> moved.miss],
                           sil)
    /\ f_out = None
    /\ AlignerIdle
    /\ HybridIdle
    /\ CascadeIdle
    /\ GreedyIdle

\* lines 69-115 for the cascade that is the whole result list
ResolveWindow(call) ==
    WindowOf(call.tx, call.segments, call.results, SilencesSec(call.silences_ms),
             0, Len(call.results),
             SegIndices(call.segments, call.results[1].start_time,
                        call.results[Len(call.results)].end_time))

\* lines 161-173, from the best ending
PathFrom(w, dp, best_end) ==
    IF IsNone(best_end) THEN <<>> ELSE Backtrack(dp, best_end.i, w.n_sub_ayah)

\* lines 101-173: the table, the best ending and the path
LocalResolve ==
    /\ f_pc = "call"
    /\ \E w \in {ResolveWindow(f_in)} : \E dp \in {DpTable(w)} :
          \E best_end \in {BestEnd(w, dp[w.n_sub_ayah + 1])} :
             f_out' = [w |-> w, dp |-> dp, best_end |-> best_end,
                       path |-> PathFrom(w, dp, best_end)]
    /\ f_pc' = "done"
    /\ UNCHANGED <<f_in, avars, hvars, cvars, gvars>>

SpecLocalResolve == LocalResolveInit /\ [][LocalResolve]_vars

\* C21: in the DP solve over a window every segment of the window is in the
\* group of exactly one ayah, every ayah of the window has a contiguous
\* non-empty group of at most 6 segments, and the group of ayah j ends where
\* the group of ayah j + 1 begins.
C21_GroupsPartitionTheWindow ==
    (f_pc = "done" /\ ~IsNone(f_out.best_end)) =>
        /\ Len(f_out.path) = f_out.w.n_sub_ayah
        /\ \A p \in 1..Len(f_out.path) :
              /\ f_out.path[p].ayah_idx = p
              /\ f_out.path[p].seg_start < f_out.path[p].seg_end
              /\ f_out.path[p].seg_end - f_out.path[p].seg_start
                    <= MAX_SEGS_PER_AYAH
              /\ f_out.path[p].seg_start =
                    (IF p = 1 THEN 0 ELSE f_out.path[p - 1].seg_end)
        /\ \A s \in 0..f_out.w.n_sub_seg - 1 :
              Cardinality({ p \in 1..Len(f_out.path) :
                              f_out.path[p].seg_start <= s
                              /\ s < f_out.path[p].seg_end }) = 1

\* the total cost of a grouping: the sum over its groups of 1 - similarity,
\* less the bonus of each group that ends at a silence
RECURSIVE PathCost(_, _)
PathCost(w, path) ==
    IF path = <<>> THEN 0
    ELSE EdgeCost(w, Head(path).seg_start, Head(path).seg_end, Head(path).ayah_idx)
         + PathCost(w, Tail(path))

\* C22: the grouping the DP solve chooses costs no more than any partition
\* of the window's segments, or of a prefix of them, into the window's ayat
\* in contiguous non-empty groups of at most K = 6 segments.
C22_DpIsCostOptimal ==
    (f_pc = "done" /\ "path" \in DOMAIN f_out) =>
        \E chosen \in {PathCost(f_out.w, f_out.path)} :
            \A i \in f_out.w.n_sub_ayah..f_out.w.n_sub_seg :
                \A P \in GroupingsTo(i, f_out.w.n_sub_ayah, MAX_SEGS_PER_AYAH) :
                    /\ ~IsNone(f_out.best_end)
                    /\ chosen <= PathCost(f_out.w, P)

\* a window of 8 segments and 2 ayat, where the cap on a group binds, solved
\* with a group of several segments that is cheaper than another partition
C22_Witness ==
    /\ f_pc = "done" /\ "path" \in DOMAIN f_out
    /\ f_out.w.n_sub_seg = 8 /\ f_out.w.n_sub_ayah = 2
    /\ \E p \in 1..Len(f_out.path) :
          f_out.path[p].seg_end - f_out.path[p].seg_start >= 2
    /\ \E P \in GroupingsTo(8, 2, MAX_SEGS_PER_AYAH) :
          PathCost(f_out.w, f_out.path) < PathCost(f_out.w, P)

\* the group sizes k that give cell (i, j) the total cost the table stores
CheapestSizes(w, dp, i, j) ==
    { k \in 1..Min(w.max_segs, i) :
        /\ ~IsNone(dp[j][i - k + 1])
        /\ dp[j][i - k + 1].cost + EdgeCost(w, i - k, i, j) = dp[j + 1][i + 1].cost }

\* C23: when two group sizes k give a cell (i, j) of the DP table the same
\* total cost, the cell stores the larger k, the longer group, and
\* backtracking recovers that group.
C23_TiesKeepTheLongerGroup ==
    (f_pc = "done" /\ "dp" \in DOMAIN f_out) =>
        \A j \in 1..f_out.w.n_sub_ayah : \A i \in j..f_out.w.n_sub_seg :
            ~IsNone(f_out.dp[j + 1][i + 1]) =>
                \A k \in CheapestSizes(f_out.w, f_out.dp, i, j) :
                    k <= i - f_out.dp[j + 1][i + 1].prev_i

-----------------------------------------------------------------------------
(* The cues of the greedy merge loop *)

\* the last and the first n of the normalized words of a text, joined
LastWords(text, n) ==
    Join(SubSeq(Split(normalize_arabic(text)),
                Max(1, Len(Split(normalize_arabic(text))) - n + 1),
                Len(Split(normalize_arabic(text)))))

FirstWords(text, n) ==
    Join(SubSeq(Split(normalize_arabic(text)), 1,
                Min(n, Len(Split(normalize_arabic(text))))))

\* N = min(3, word count of the ayah)
CueWords(ayah_text) == Min(3, Len(Split(Strip(ayah_text))))

\* tail match: the last N words of the buffer against the ayah's, >= 0.6
TailMatch(buffer_text, ayah_text) ==
    \E ratio \in {align_segments_similarity(
                      LastWords(buffer_text, CueWords(ayah_text)),
                      LastWords(ayah_text, CueWords(ayah_text)))} :
        FULL_SCORE * ratio.matches2 >= CUE_SIMILARITY * ratio.length

\* head match: the first N words of the next segment against the next
\* ayah's, > 0.6
HeadMatch(segment_text, ayah_text) ==
    \E ratio \in {align_segments_similarity(
                      FirstWords(segment_text, CueWords(ayah_text)),
                      FirstWords(ayah_text, CueWords(ayah_text)))} :
        FULL_SCORE * ratio.matches2 > CUE_SIMILARITY * ratio.length

\* the cue that fires for the buffer, in the order tail, head, end of input
CueOf(segments, ayahs, i, ayah_index, buffer_text) ==
    IF TailMatch(buffer_text, ayahs[ayah_index + 1].text) THEN "tail"
    ELSE IF i + 1 < Len(segments)
    THEN (IF ayah_index + 1 < Len(ayahs)
             /\ HeadMatch(segments[i + 2].text, ayahs[ayah_index + 2].text)
          THEN "head" ELSE "none")
    ELSE "end"

-----------------------------------------------------------------------------
(* The order of the stages of a hybrid call of Aligner.align *)

\* C26: when a hybrid call of align returns and the list the hybrid stage
\* left holds a run of at least 2 consecutive results below 0.7, cascade
\* recovery has run as the pass right after the hybrid stage, before zone
\* realignment and the overlap fix.
C26_CascadeRecoveryAfterHybrid ==
    \A t \in callers :
        (/\ pc[t] = "returned"
         /\ passes[t] # <<>>
         /\ passes[t][1] = "hybrid"
         /\ find_cascade_sequences(stages[t][1], CASCADE_THRESHOLD,
                                   MIN_CASCADE_LENGTH) # <<>>)
        => /\ Len(passes[t]) >= 2
           /\ passes[t][2] = "cascade"

-----------------------------------------------------------------------------
(* Calls of Aligner.align one after another on one instance *)

\* one caller, several calls, empty segment and ayah lists among the arguments
SequentialProfile ==
    [segment_lists |-> SegmentLists(MaxSeg - 1, {FALSE}),
     ayah_lists |-> AyahLists(MaxAy, {FALSE}),
     silence_lists |-> {<<>>},
     callbacks |-> {"none"},
     dp_sims |-> {60, 90}, old_sims |-> {70}, split_sims |-> {64},
     zone_sims |-> {0}, max_calls |-> MaxCalls]

SpecSequential == AlignInit({1}, SequentialProfile) /\ [][AlignNext]_vars

\* C27: last_stats read after a call of align returned, whatever calls were
\* made on the instance before, is None or the HybridStats that call
\* produced; it is None after a call with a non-hybrid strategy and after a
\* call with empty segments or empty ayat.
C27_LastStatsOfTheCallOrNone ==
    \A t \in callers :
        pc[t] = "read" =>
            /\ IsNone(seen_stats[t]) \/ seen_stats[t] = own_stats[t]
            /\ (\/ self_strategy # "hybrid"
                \/ inp[t].segments = <<>>
                \/ inp[t].ayahs = <<>>) => IsNone(seen_stats[t])

-----------------------------------------------------------------------------
(* The order in time of the list align_segments_hybrid returns *)

\* results[i].end <= results[i + 1].start for every i
OrderedWithoutOverlap(results) ==
    \A i \in 1..Len(results) - 1 :
        results[i].end_time <= results[i + 1].start_time

\* C28: when the DP output and the greedy output are each ordered in time
\* without overlaps, so is the list the hybrid aligner returns.
C28_HybridKeepsOrder ==
    (/\ h_pc = "done"
     /\ OrderedWithoutOverlap(h_in.dp_results)
     /\ OrderedWithoutOverlap(h_in.old_results))
    => OrderedWithoutOverlap(h_results)

-----------------------------------------------------------------------------
(* apply_cascade_recovery on a run with one short segment *)

\* the duration of the short segment, in deciseconds
ShortDur == 2

\* most ayat of such a run; it has two segments more than ayat
MaxEdgeAyahs == 4

\* n segments back to back, the one at index short lasting ShortDur
SegmentsWithShort(n, short) ==
    [i \in 1..n |->
        [start |-> (i - 1) * SegDur
                   - (IF short < i THEN SegDur - ShortDur ELSE 0),
         end |-> i * SegDur - (IF short <= i THEN SegDur - ShortDur ELSE 0),
         blank |-> FALSE]]

\* the arguments of the call: the results are those of the first alignment
EdgeInput(m, tx, short) ==
    LET segments == SegmentsWithShort(m + 2, short)
        ayahs == [j \in 1..m |-> [ayah_number |-> j, words |-> ShortWords]]
    IN  [tx |-> tx,
         segments |-> segments,
         ayahs |-> ayahs,
         results |-> [j \in 1..m |->
                        AlignmentResult(ayahs[j],
                            segments[tx.home[j][1]].start,
                            segments[tx.home[j][2]].end,
                            tx.home[j],
                            similarity(tx, j, tx.home[j][1], tx.home[j][2]))],
         silences_ms |-> <<>>]

CascadeEdgeInit ==
    /\ c_pc = "call"
    /\ \E m \in 2..MaxEdgeAyahs, good \in SUBSET (1..MaxEdgeAyahs),
          wide \in CascadeSims.wide, moved \in CascadeSims.moved :
          /\ good \subseteq 1..m
          /\ \E home \in HomesOf(m + 2, m), short \in 1..(m + 2) :
                c_in = EdgeInput(m,
                           [home |-> home, good |-> good,
                            low_sim |-> CascadeSims.low_sim,
                            good_sim |-> CascadeSims.good_sim,
                            wide |-> wide, echo |-> CascadeSims.low_sim,
                            hit |-> moved.hit, miss |-> moved.miss],
                           short)
    /\ c_cascades = <<>>
    /\ c_results = <<>>
    /\ c_log = <<>>
    /\ AlignerIdle
    /\ FunctionIdle
    /\ HybridIdle
    /\ GreedyIdle

SpecCascadeEdges == CascadeEdgeInit /\ [][CascadeNext]_vars

\* C29: when a recovery is accepted and, before it, the result left of the
\* window ended no later than the window's first result started, the new
\* slice does not start before that end; and when the result right of the
\* window started no earlier than the window's last result ended, the new
\* slice does not end after that start.
C29_SliceFitsItsNeighbours ==
    \A n \in 1..Len(c_log) :
        LET before == c_log[n].before
            new == c_log[n].recovery.results
            ext_start == Max(0, c_log[n].cascade[1] - CONTEXT_AYAHS)
            ext_end == Min(Len(before), c_log[n].cascade[2] + CONTEXT_AYAHS)
        IN  (c_log[n].recovery.found /\ new # <<>>) =>
              /\ (/\ ext_start >= 1
                  /\ before[ext_start].end_time
                        <= before[ext_start + 1].start_time)
                 => before[ext_start].end_time <= new[1].start_time
              /\ (/\ ext_end < Len(before)
                  /\ before[ext_end + 1].start_time
                        >= before[ext_end].end_time)
                 => before[ext_end + 1].start_time >= new[Len(new)].end_time

-----------------------------------------------------------------------------
(* The shape of cleaned_segments *)

\* C30: the entries of cleaned_segments carry the ayah indices 0, 1, 2, ...
\* in this order with no gap and no repeat; the group of every entry is a
\* non-empty run of consecutive segments, the group of an entry starts after
\* the end of the group of the entry before it, and there are never more
\* entries than min(number of segments, number of ayahs).
C30_EmissionsInStep ==
    /\ \A k \in 1..Len(g_cleaned_segments) :
          /\ g_cleaned_segments[k].ayah_index = k - 1
          /\ g_cleaned_segments[k].first >= 0
          /\ g_cleaned_segments[k].first <= g_cleaned_segments[k].last
          /\ g_cleaned_segments[k].last < Len(g_in.segments)
    /\ \A k \in 2..Len(g_cleaned_segments) :
          g_cleaned_segments[k - 1].last < g_cleaned_segments[k].first
    /\ Len(g_cleaned_segments) <= Min(Len(g_in.segments), Len(g_in.ayahs))

\* the loop has ended with as many entries as there are ayahs, fewer than
\* there are segments, one of them merged from two segments
C30_Witness ==
    /\ g_pc = "done"
    /\ Len(g_cleaned_segments) = Len(g_in.ayahs)
    /\ Len(g_cleaned_segments) = 2
    /\ Len(g_in.segments) = 3
    /\ \E k \in 1..2 : g_cleaned_segments[k].last = g_cleaned_segments[k].first + 1

====
